---- MODULE Spec2Model ----
(***************************************************************************)
(* Model of scripts/sync-productboard-to-notion.js: the incremental sync   *)
(* of Productboard releases and features into two Notion databases.        *)
(*                                                                         *)
(* The source (Productboard) and the target store (Notion) are the         *)
(* environment.  The target store is modelled as two lists of pages in     *)
(* creation order; a page update is a partial patch (only the properties   *)
(* named in the payload are replaced), a failed call has no effect.        *)
(* The source only changes between runs.                                   *)
(***************************************************************************)
EXTENDS Integers, Sequences, FiniteSets, TLC

\* ------------------------------------------------------------- bounds
MaxRuns == 3        \* runs of main() in one behaviour
MaxChanges == 1     \* source-side edits in one behaviour
\* failures of the environment in one behaviour: failing network calls, and runs
\* started with a configuration value missing
MaxFaults == 1
PageSize == 1       \* stands for page_size: 100 of the database query

\* ------------------------------------------------------------- JS values
Null == "<null>"
Undefined == "<undefined>"
UndefinedProp == [undefined |-> TRUE]
NullObj == [null |-> TRUE]
\* a value that is not a string: the number 7
Seven == "<number 7>"

\* JS truthiness of a string-or-null value
Truthy(v) == v \notin {Null, Undefined, ""}

\* a || null
OrNull(v) == IF Truthy(v) THEN v ELSE Null

Min(a, b) == IF a < b THEN a ELSE b

\* JS Map, as the list of its [key, value] entries in insertion order
MapHas(m, k) == \E n \in 1..Len(m) : m[n].key = k

MapGet(m, k) ==
  IF MapHas(m, k) THEN m[CHOOSE n \in 1..Len(m) : m[n].key = k].value ELSE Undefined

MapSet(m, k, v) ==
  IF MapHas(m, k)
  THEN [n \in 1..Len(m) |-> IF m[n].key = k THEN [key |-> k, value |-> v] ELSE m[n]]
  ELSE Append(m, [key |-> k, value |-> v])

\* Array.prototype.includes
Includes(s, x) == \E n \in 1..Len(s) : s[n] = x

\* the elements of a list in order, each kept at its first occurrence (new Set(..))
RECURSIVE Dedup(_)
Dedup(s) ==
  IF s = <<>> THEN <<>>
  ELSE LET front == Dedup(SubSeq(s, 1, Len(s) - 1))
           last == s[Len(s)]
       IN IF Includes(front, last) THEN front ELSE Append(front, last)

RECURSIVE Flatten(_)
Flatten(ss) == IF ss = <<>> THEN <<>> ELSE ss[1] \o Flatten(Tail(ss))

\* ------------------------------------------------------------- normalisation
\* String.prototype.toLowerCase on the health labels of the source
toLowerCase(s) ==
  CASE s = "On-Track" -> "on-track"
    [] s = "At-Risk" -> "at-risk"
    [] OTHER -> s

\* String.prototype.split('T') on the timestamps of the source
split(s) ==
  CASE s = "2025-05-05T00:00:00Z" -> <<"2025-05-05", "00:00:00Z">>
    [] s = "2025-06-02T12:30:00Z" -> <<"2025-06-02", "12:30:00Z">>
    [] OTHER -> <<s>>

formatDate(dateString) == IF ~Truthy(dateString) THEN Null ELSE split(dateString)[1]

\* normalizeHealth without its default for a missing status
normalizeHealth_NoDefault(health) == toLowerCase(health)

normalizeHealth(health) == IF ~Truthy(health) THEN "unknown" ELSE toLowerCase(health)

\* ------------------------------------------------------------- source data
RelIds == <<"r1", "r2">>
FeatIds == <<"f1", "f2">>
PageIds == <<"p1", "p2", "p3", "p4", "p5", "p6", "p7", "p8">>

\* the records whose fields the source edits: the release and the feature that have
\* every field set at the start; the other two start with every optional field empty
EditedRecords == {"r1", "f1"}

ReleaseFields == {"name", "state", "releaseGroup"}
FeatureFields == {"name", "status", "health", "pm", "link"}

\* the values an edit of the source may give a field
FieldValues(f) ==
  CASE f = "name" -> {"Alpha", "Beta"}
    [] f = "state" -> {Null, "upcoming"}
    [] f = "releaseGroup" -> {Null, "g1"}
    [] f = "status" -> {Null, "planned"}
    [] f = "health" -> {Null, "On-Track"}
    [] f = "pm" -> {Null, "pm@x.io"}
    [] f = "link" -> {Null, "https://pb/f"}

InitReleases ==
  << [id |-> "r1", name |-> "Alpha", state |-> "upcoming", releaseGroup |-> "g1",
      startDate |-> "2025-05-05T00:00:00Z", endDate |-> "2025-06-02T12:30:00Z"],
     [id |-> "r2", name |-> "Beta", state |-> Null, releaseGroup |-> Null,
      startDate |-> Null, endDate |-> Null] >>

InitAssign == [r \in {"r1", "r2"} |-> IF r = "r1" THEN <<"f1">> ELSE <<"f2">>]

InitFeatures ==
  [f \in {"f1", "f2"} |->
     IF f = "f1"
     THEN [id |-> "f1", name |-> "Alpha", status |-> "planned", health |-> "On-Track",
           pm |-> "pm@x.io", link |-> "https://pb/f"]
     ELSE [id |-> "f2", name |-> "Beta", status |-> Null, health |-> Null,
           pm |-> Null, link |-> Null]]

\* ------------------------------------------------------------- state
VARIABLES
  pbReleases,        \* source: GET /releases, the raw release list
  pbAssign,          \* source: release id -> feature ids assigned to it
  pbFeatures,        \* source: feature id -> raw feature
  notionReleases,    \* target: pages of the Releases database, in creation order
  notionFeatures,    \* target: pages of the Features database, in creation order
  pc,                \* position of main()
  startCursor,       \* buildIdMapping: 0 is undefined, else the next page's position
  idMap,             \* [releases, features]: external id -> page id
  releases,          \* main: fetched releases
  releaseFeatureMap, \* main: release id -> feature ids
  featureIdsArray,   \* main: unique feature ids
  features,          \* main: fetched features
  i,                 \* loop index (from 1)
  stats,             \* created / updated / unchanged per entity type
  releasePageMap,    \* release id -> page id
  featurePageMap,    \* feature id -> page id
  notionPayloads,    \* the payload log
  trace,             \* the network calls and sleeps of this run, in order
  logged,            \* the warnings and errors this run wrote (console.error, log(.., 'error'))
  faultLog,          \* the calls that failed in this run
  runNo,             \* runs started
  faultsLeft,        \* failures the environment may still inject
  changesLeft,       \* edits the source may still make
  prevClean,         \* the previous run reached the summary without a failed call
  chg,               \* the source edits since the last run
  env,               \* process.env of this run: the four configuration values
  detect             \* the last call of detectChanges: its arguments and what it returned

srcVars == <<pbReleases, pbAssign, pbFeatures>>
storeVars == <<notionReleases, notionFeatures>>
fetchVars == <<releases, releaseFeatureMap, featureIdsArray, features>>
syncVars == <<stats, releasePageMap, featurePageMap, notionPayloads, detect>>
histVars == <<runNo, changesLeft, prevClean, chg, env>>
vars == <<srcVars, storeVars, pc, startCursor, idMap, fetchVars, i, syncVars,
          trace, logged, faultLog, faultsLeft, histVars>>

\* the configuration values main() requires
EnvKeys == {"NOTION_API_KEY", "NOTION_RELEASES_DB_ID", "NOTION_FEATURES_DB_ID",
            "PRODUCTBOARD_API_TOKEN"}

FullEnv == [k \in EnvKeys |-> "set"]

\* the environments a run may be started in: complete or, while the environment may
\* still inject a failure, with one of the values missing
Envs(left) ==
  {FullEnv} \cup (IF left > 0 THEN {[FullEnv EXCEPT ![k] = Undefined] : k \in EnvKeys}
                  ELSE {})

\* main's validation with the source API token left out of the test
ValidEnv_ThreeKeys(e) ==
  /\ Truthy(e["NOTION_API_KEY"])
  /\ Truthy(e["NOTION_RELEASES_DB_ID"])
  /\ Truthy(e["NOTION_FEATURES_DB_ID"])

\* main: the negation of the test that throws 'Missing required environment variables'
ValidEnv(e) ==
  /\ Truthy(e["NOTION_API_KEY"])
  /\ Truthy(e["NOTION_RELEASES_DB_ID"])
  /\ Truthy(e["NOTION_FEATURES_DB_ID"])
  /\ Truthy(e["PRODUCTBOARD_API_TOKEN"])

\* the outcomes the environment may give the next network call
Outcomes(left) == IF left > 0 THEN {TRUE, FALSE} ELSE {TRUE}

Fault(call, id) == [call |-> call, id |-> id]

ZeroStats ==
  [releases |-> [created |-> 0, updated |-> 0, unchanged |-> 0],
   features |-> [created |-> 0, updated |-> 0, unchanged |-> 0]]

\* detectChanges has not been called
NoCall == [oldData |-> NullObj, newData |-> NullObj, changes |-> NullObj]

\* before the first run: nothing fetched, a complete configuration
InitMain ==
  /\ pc = "Idle"
  /\ startCursor = 0
  /\ idMap = [releases |-> <<>>, features |-> <<>>]
  /\ releases = <<>>
  /\ releaseFeatureMap = <<>>
  /\ featureIdsArray = <<>>
  /\ features = <<>>
  /\ i = 1
  /\ stats = ZeroStats
  /\ releasePageMap = <<>>
  /\ featurePageMap = <<>>
  /\ notionPayloads = <<>>
  /\ trace = <<>>
  /\ logged = <<>>
  /\ faultLog = {}
  /\ runNo = 0
  /\ faultsLeft = MaxFaults
  /\ changesLeft = MaxChanges
  /\ prevClean = FALSE
  /\ chg = [n |-> 0, conv |-> FALSE, kind |-> "none", id |-> Null]
  /\ env = FullEnv

\* before the first run, over an empty target
InitIdle ==
  /\ notionReleases = <<>>
  /\ notionFeatures = <<>>
  /\ InitMain

InitRun == InitIdle /\ detect = NoCall

Init ==
  /\ pbReleases = InitReleases
  /\ pbAssign = InitAssign
  /\ pbFeatures = InitFeatures
  /\ InitRun

\* ------------------------------------------------------------- target store

EmptyReleaseProps ==
  [k \in {"Name", "Productboard ID", "Start Date", "End Date", "State",
          "Release Group", "Features"} |->
     CASE k = "Name" -> [title |-> <<>>]
       [] k \in {"Start Date", "End Date"} -> [date |-> Null]
       [] k = "State" -> [select |-> Null]
       [] k = "Features" -> [relation |-> <<>>]
       [] OTHER -> [rich_text |-> <<>>]]

EmptyFeatureProps ==
  [k \in {"Name", "Feature ID", "Status", "Health Status", "Product Manager",
          "Release", "Productboard Link"} |->
     CASE k = "Name" -> [title |-> <<>>]
       [] k \in {"Status", "Health Status"} -> [select |-> Null]
       [] k = "Release" -> [relation |-> <<>>]
       [] k = "Productboard Link" -> [url |-> Null]
       [] OTHER -> [rich_text |-> <<>>]]

\* a partial patch: the properties the payload names replace the page's
Patch(props, payload) ==
  [k \in DOMAIN props |-> IF k \in DOMAIN payload THEN payload[k] ELSE props[k]]

NextPageId == PageIds[Len(notionReleases) + Len(notionFeatures) + 1]

\* notion.pages.create: the database with the new page appended
CreatePage(db, empty, pageId, payload) ==
  Append(db, [id |-> pageId, properties |-> Patch(empty, payload)])

\* notion.pages.update
UpdatePage(db, pageId, payload) ==
  [n \in 1..Len(db) |->
     IF db[n].id = pageId
     THEN [db[n] EXCEPT !.properties = Patch(@, payload)]
     ELSE db[n]]

HasPage(db, pageId) == \E n \in 1..Len(db) : db[n].id = pageId

PageOf(db, pageId) == db[CHOOSE n \in 1..Len(db) : db[n].id = pageId]

\* a query answered as if the first page of results were the last
QueryDatabase_FirstPageOnly(db, cursor) ==
  [results |-> SubSeq(db, 1, Min(PageSize, Len(db))), has_more |-> FALSE, next_cursor |-> 0]

\* POST /databases/{id}/query with start_cursor and page_size
QueryDatabase(db, cursor) ==
  LET from == IF cursor = 0 THEN 1 ELSE cursor
      to == Min(from + PageSize - 1, Len(db))
  IN [results |-> SubSeq(db, from, to),
      has_more |-> to < Len(db),
      next_cursor |-> IF to < Len(db) THEN to + 1 ELSE 0]

\* x?.[0]?.plain_text and x?.[0]?.id
First(list) == IF Len(list) > 0 THEN list[1] ELSE Undefined

\* ------------------------------------------------------------- sync-productboard-to-notion.js
\* fetchAllReleases: the mapping of the response
fetchAllReleases(raw) ==
  [n \in 1..Len(raw) |->
     [id |-> raw[n].id, name |-> raw[n].name,
      startDate |-> formatDate(raw[n].startDate),
      endDate |-> formatDate(raw[n].endDate),
      state |-> raw[n].state,
      releaseGroup |-> OrNull(raw[n].releaseGroup)]]

LogLine(level, call, id) == [level |-> level, call |-> call, id |-> id]

\* the end of a "Processing ... i/n..." line of main(): console.log of its outcome
Progress(outcome, id) == <<LogLine("progress", outcome, id)>>

\* What a function or a try block of main() hands back: its value, the lines it
\* wrote to the log, and whether the error left it (thrown) instead of being caught.
Returned(value) == [value |-> value, lines |-> <<>>, thrown |-> FALSE]

Caught(value, level, call, id) ==
  [value |-> value, lines |-> <<LogLine(level, call, id)>>, thrown |-> FALSE]

Thrown(call, id) ==
  [value |-> Null, lines |-> <<LogLine("fatal", call, id)>>, thrown |-> TRUE]

\* fetchFeatureAssignments; ok: the request succeeded, raw: the ids in its response
fetchFeatureAssignments(releaseId, ok, raw) ==
  IF ok THEN Returned(SelectSeq(raw, Truthy))
  ELSE Caught(<<>>, "warning", "assignments", releaseId)

\* fetchFeatureDetails without its try/catch: the error of the request leaves it
fetchFeatureDetails_NoCatch(featureId, ok, raw) ==
  IF ok
  THEN Returned([id |-> raw.id, name |-> raw.name, status |-> OrNull(raw.status),
                 health |-> normalizeHealth(OrNull(raw.health)),
                 productManager |-> OrNull(raw.pm),
                 productboardLink |-> OrNull(raw.link)])
  ELSE Thrown("details", featureId)

\* fetchFeatureDetails; ok: the request succeeded, raw: the feature in its response
fetchFeatureDetails(featureId, ok, raw) ==
  IF ok
  THEN Returned([id |-> raw.id, name |-> raw.name, status |-> OrNull(raw.status),
                 health |-> normalizeHealth(OrNull(raw.health)),
                 productManager |-> OrNull(raw.pm),
                 productboardLink |-> OrNull(raw.link)])
  ELSE Caught(NullObj, "warning", "details", featureId)

\* buildIdMapping with the arguments of set() swapped: idMap.set(page.id, pbId)
IndexResults_Swapped(map, results, idProp) ==
  LET RECURSIVE Go(_, _)
      Go(m, n) ==
        IF n > Len(results) THEN m
        ELSE LET pbId == First(results[n].properties[idProp].rich_text)
             IN Go(IF Truthy(pbId) THEN MapSet(m, results[n].id, pbId) ELSE m, n + 1)
  IN Go(map, 1)

\* buildIdMapping that reads the results and sets no entry
IndexResults_NoEntries(map, results, idProp) == map

\* buildIdMapping: data.results.forEach(...) for one response
IndexResults(map, results, idProp) ==
  LET RECURSIVE Go(_, _)
      Go(m, n) ==
        IF n > Len(results) THEN m
        ELSE LET pbId == First(results[n].properties[idProp].rich_text)
             IN Go(IF Truthy(pbId) THEN MapSet(m, pbId, results[n].id) ELSE m, n + 1)
  IN Go(map, 1)

\* getNotionPageData returning a page without values, instead of null, when the
\* retrieve fails
getNotionPageData_EmptyOnFailure(db, pageId, type, ok, id) ==
  IF ok /\ HasPage(db, pageId)
  THEN LET props == PageOf(db, pageId).properties
           name == First(props["Name"].title)
       IN IF type = "release"
          THEN Returned(
                 [name |-> IF Truthy(name) THEN name ELSE "",
                  state |-> OrNull(props["State"].select),
                  releaseGroup |-> OrNull(First(props["Release Group"].rich_text))])
          ELSE Returned(
                 [name |-> IF Truthy(name) THEN name ELSE "",
                  status |-> OrNull(props["Status"].select),
                  health |-> OrNull(props["Health Status"].select),
                  productManager |-> OrNull(First(props["Product Manager"].rich_text)),
                  productboardLink |-> OrNull(props["Productboard Link"].url),
                  releaseId |-> OrNull(First(props["Release"].relation))])
  ELSE IF type = "release"
       THEN Caught([name |-> "", state |-> Null, releaseGroup |-> Null],
                   "warning", "retrieve", id)
       ELSE Caught([name |-> "", status |-> Null, health |-> Null,
                    productManager |-> Null, productboardLink |-> Null,
                    releaseId |-> Null], "warning", "retrieve", id)

\* getNotionPageData; ok: notion.pages.retrieve succeeded; id: the record, for the log
getNotionPageData(db, pageId, type, ok, id) ==
  IF ok /\ HasPage(db, pageId)
  THEN LET props == PageOf(db, pageId).properties
           name == First(props["Name"].title)
       IN IF type = "release"
          THEN Returned(
                 [name |-> IF Truthy(name) THEN name ELSE "",
                  state |-> OrNull(props["State"].select),
                  releaseGroup |-> OrNull(First(props["Release Group"].rich_text))])
          ELSE Returned(
                 [name |-> IF Truthy(name) THEN name ELSE "",
                  status |-> OrNull(props["Status"].select),
                  health |-> OrNull(props["Health Status"].select),
                  productManager |-> OrNull(First(props["Product Manager"].rich_text)),
                  productboardLink |-> OrNull(props["Productboard Link"].url),
                  releaseId |-> OrNull(First(props["Release"].relation))])
  ELSE Caught(NullObj, "warning", "retrieve", id)

\* notion.pages.create / notion.pages.update outside a try block: the error leaves main()
TryWrite_Rethrow(ok, call, id) ==
  IF ok THEN Returned(Null) ELSE Thrown(call, id)

\* the try/catch of main() around notion.pages.create and notion.pages.update
TryWrite(ok, call, id) ==
  IF ok THEN Returned(Null) ELSE Caught(Null, "error", call, id)

\* the error of a query or of the release list caught and logged where it is raised
TryFatal_Swallowed(ok, call, id) ==
  IF ok THEN Returned(Null) ELSE Caught(Null, "error", call, id)

\* buildIdMapping's query and fetchAllReleases: nothing catches their error before
\* main().catch
TryFatal(ok, call, id) == IF ok THEN Returned(Null) ELSE Thrown(call, id)

\* the events of a run
Call(api, call, id) == [ev |-> api, call |-> call, id |-> id]

\* a sleep that returns at once
sleep_NoDelay(ms) == [ev |-> "sleep", call |-> "sleep", id |-> "0"]

sleep(ms) == [ev |-> "sleep", call |-> "sleep", id |-> ms]

\* String(v): a string is itself, the number 7 is "7"
String(v) == IF v = Seven THEN "7" ELSE v

\* detectChanges comparing the values as they are (oldValue !== newValue)
detectChanges_Strict(oldData, newData) ==
  LET old(k) == IF k \in DOMAIN oldData THEN oldData[k] ELSE Undefined
      changed == {k \in DOMAIN newData : old(k) # newData[k]}
  IN IF changed = {} THEN NullObj
     ELSE [k \in changed |-> [old |-> old(k), new |-> newData[k]]]

detectChanges(oldData, newData) ==
  LET old(k) == IF k \in DOMAIN oldData THEN oldData[k] ELSE Undefined
      norm(v) == IF v \in {Null, Undefined} THEN Null ELSE String(v)
      changed == {k \in DOMAIN newData : norm(old(k)) # norm(newData[k])}
  IN IF changed = {} THEN NullObj
     ELSE [k \in changed |-> [old |-> old(k), new |-> newData[k]]]

\* the record of one call of detectChanges
Detected(oldData, newData) ==
  [oldData |-> oldData, newData |-> newData, changes |-> detectChanges(oldData, newData)]

\* mapReleaseToNotion writing the release's name into 'Productboard ID'
mapReleaseToNotion_NameAsId(release) ==
  [k \in {"Name", "Productboard ID", "State", "Release Group"} |->
     CASE k = "Name" -> [title |-> <<release.name>>]
       [] k = "Productboard ID" -> [rich_text |-> <<release.name>>]
       [] k = "State" ->
            IF Truthy(release.state) THEN [select |-> release.state] ELSE UndefinedProp
       [] k = "Release Group" ->
            IF Truthy(release.releaseGroup)
            THEN [rich_text |-> <<release.releaseGroup>>] ELSE UndefinedProp]

\* mapReleaseToNotion sending an empty State when the release has none
mapReleaseToNotion_ClearsState(release) ==
  [k \in {"Name", "Productboard ID", "State", "Release Group"} |->
     CASE k = "Name" -> [title |-> <<release.name>>]
       [] k = "Productboard ID" -> [rich_text |-> <<release.id>>]
       [] k = "State" -> [select |-> OrNull(release.state)]
       [] k = "Release Group" ->
            IF Truthy(release.releaseGroup)
            THEN [rich_text |-> <<release.releaseGroup>>] ELSE UndefinedProp]

mapReleaseToNotion(release) ==
  [k \in {"Name", "Productboard ID", "State", "Release Group"} |->
     CASE k = "Name" -> [title |-> <<release.name>>]
       [] k = "Productboard ID" -> [rich_text |-> <<release.id>>]
       [] k = "State" ->
            IF Truthy(release.state) THEN [select |-> release.state] ELSE UndefinedProp
       [] k = "Release Group" ->
            IF Truthy(release.releaseGroup)
            THEN [rich_text |-> <<release.releaseGroup>>] ELSE UndefinedProp]

\* mapFeatureToNotion leaving 'Product Manager' out when the feature has none
mapFeatureToNotion_OmitEmptyManager(feature, releasePageId) ==
  [k \in {"Name", "Feature ID", "Status", "Health Status", "Product Manager",
          "Release", "Productboard Link"} |->
     CASE k = "Name" -> [title |-> <<feature.name>>]
       [] k = "Feature ID" -> [rich_text |-> <<feature.id>>]
       [] k = "Status" ->
            IF Truthy(feature.status) THEN [select |-> feature.status] ELSE UndefinedProp
       [] k = "Health Status" ->
            IF Truthy(feature.health) THEN [select |-> feature.health] ELSE UndefinedProp
       [] k = "Product Manager" ->
            IF Truthy(feature.productManager)
            THEN [rich_text |-> <<feature.productManager>>] ELSE UndefinedProp
       [] k = "Release" ->
            IF Truthy(releasePageId) THEN [relation |-> <<releasePageId>>] ELSE UndefinedProp
       [] k = "Productboard Link" ->
            IF Truthy(feature.productboardLink)
            THEN [url |-> feature.productboardLink] ELSE UndefinedProp]

mapFeatureToNotion(feature, releasePageId) ==
  [k \in {"Name", "Feature ID", "Status", "Health Status", "Product Manager",
          "Release", "Productboard Link"} |->
     CASE k = "Name" -> [title |-> <<feature.name>>]
       [] k = "Feature ID" -> [rich_text |-> <<feature.id>>]
       [] k = "Status" ->
            IF Truthy(feature.status) THEN [select |-> feature.status] ELSE UndefinedProp
       [] k = "Health Status" ->
            IF Truthy(feature.health) THEN [select |-> feature.health] ELSE UndefinedProp
       [] k = "Product Manager" ->
            [rich_text |-> IF Truthy(feature.productManager)
                           THEN <<feature.productManager>> ELSE <<>>]
       [] k = "Release" ->
            IF Truthy(releasePageId) THEN [relation |-> <<releasePageId>>] ELSE UndefinedProp
       [] k = "Productboard Link" ->
            IF Truthy(feature.productboardLink)
            THEN [url |-> feature.productboardLink] ELSE UndefinedProp]

removeUndefinedProperties(obj) ==
  [k \in {key \in DOMAIN obj : obj[key] # UndefinedProp} |-> obj[k]]

\* logNotionPayload: the entry pushed to notionPayloads
logNotionPayload(operation, type, payload, pageId, result) ==
  [operation |-> operation, type |-> type, pageId |-> pageId,
   payload |-> payload, result |-> result]

\* ------------------------------------------------------------- main(): index and fetch
\* the environment's record of the calls it failed in this pass
Faulted(fs) ==
  /\ faultsLeft' = faultsLeft - Cardinality(fs)
  /\ faultLog' = faultLog \cup fs

FaultIf(failed, call, id) == IF failed THEN {Fault(call, id)} ELSE {}

\* main().catch: a thrown error ends the run
After(result, next) == IF result.thrown THEN "Failed" ELSE next

\* main with step 4 (features) placed before step 3 (releases)
PhaseAfter_FeaturesFirst(phase) ==
  CASE phase = "IndexReleases" -> "IndexFeatures"
    [] phase = "IndexFeatures" -> "FetchingReleases"
    [] phase = "FetchingReleases" -> "FetchingAssignments"
    [] phase = "FetchingAssignments" -> "FetchingDetails"
    [] phase = "FetchingDetails" -> "SyncingFeatures"
    [] phase = "SyncingFeatures" -> "SyncingReleases"
    [] phase = "SyncingReleases" -> "UpdatingRelations"
    [] phase = "UpdatingRelations" -> "Done"

\* main: the order of its steps; the step that follows the one that has completed
PhaseAfter(phase) ==
  CASE phase = "IndexReleases" -> "IndexFeatures"
    [] phase = "IndexFeatures" -> "FetchingReleases"
    [] phase = "FetchingReleases" -> "FetchingAssignments"
    [] phase = "FetchingAssignments" -> "FetchingDetails"
    [] phase = "FetchingDetails" -> "SyncingReleases"
    [] phase = "SyncingReleases" -> "SyncingFeatures"
    [] phase = "SyncingFeatures" -> "UpdatingRelations"
    [] phase = "UpdatingRelations" -> "Done"

\* buildIdMapping: one request of the loop over the Releases database
QueryReleases ==
  /\ pc = "IndexReleases"
  /\ \E ok \in Outcomes(faultsLeft) :
       LET data == QueryDatabase(notionReleases, startCursor)
           try == TryFatal(ok, "query", "releases")
       IN /\ idMap' = IF ok
                      THEN [idMap EXCEPT !.releases =
                              IndexResults(@, data.results, "Productboard ID")]
                      ELSE idMap
          /\ startCursor' = IF ok /\ data.has_more THEN data.next_cursor ELSE 0
          /\ pc' = After(try, IF data.has_more THEN pc ELSE PhaseAfter(pc))
          /\ trace' = trace \o <<Call("target", "query", "releases")>>
                        \o (IF ok THEN <<sleep("350")>> ELSE <<>>)
          /\ logged' = logged \o try.lines
          /\ Faulted(FaultIf(~ok, "query", "releases"))
  /\ UNCHANGED <<srcVars, storeVars, fetchVars, i, syncVars, histVars>>

\* buildIdMapping: one request of the loop over the Features database
QueryFeatures ==
  /\ pc = "IndexFeatures"
  /\ \E ok \in Outcomes(faultsLeft) :
       LET data == QueryDatabase(notionFeatures, startCursor)
           try == TryFatal(ok, "query", "features")
       IN /\ idMap' = IF ok
                      THEN [idMap EXCEPT !.features =
                              IndexResults(@, data.results, "Feature ID")]
                      ELSE idMap
          /\ startCursor' = IF ok /\ data.has_more THEN data.next_cursor ELSE 0
          /\ pc' = After(try, IF data.has_more THEN pc ELSE PhaseAfter(pc))
          /\ trace' = trace \o <<Call("target", "query", "features")>>
                        \o (IF ok THEN <<sleep("350")>> ELSE <<>>)
          /\ logged' = logged \o try.lines
          /\ Faulted(FaultIf(~ok, "query", "features"))
  /\ UNCHANGED <<srcVars, storeVars, fetchVars, i, syncVars, histVars>>

\* main, step 2: const releases = await fetchAllReleases()
FetchReleases ==
  /\ pc = "FetchingReleases"
  /\ \E ok \in Outcomes(faultsLeft) :
       LET try == TryFatal(ok, "releases", "all")
       IN /\ releases' = IF ok THEN fetchAllReleases(pbReleases) ELSE releases
          /\ pc' = After(try, PhaseAfter(pc))
          /\ trace' = Append(trace, Call("source", "releases", "all"))
          /\ logged' = logged \o try.lines
          /\ Faulted(FaultIf(~ok, "releases", "all"))
  /\ i' = 1
  /\ UNCHANGED <<srcVars, storeVars, startCursor, idMap, releaseFeatureMap,
                 featureIdsArray, features, syncVars, histVars>>

\* the unique feature ids of releaseFeatureMap, in the order new Set() meets them
allFeatureIds(map) == Dedup(Flatten([n \in 1..Len(map) |-> map[n].value]))

\* main: one pass of the loop that fetches the assignments of releases[i]
FetchAssignments ==
  /\ pc = "FetchingAssignments"
  /\ IF i > Len(releases)
     THEN /\ featureIdsArray' = allFeatureIds(releaseFeatureMap)
          /\ pc' = PhaseAfter(pc)
          /\ i' = 1
          /\ UNCHANGED <<releaseFeatureMap, trace, logged, faultsLeft, faultLog>>
     ELSE \E ok \in Outcomes(faultsLeft) :
            LET release == releases[i]
                featureIds == fetchFeatureAssignments(release.id, ok,
                                IF release.id \in DOMAIN pbAssign
                                THEN pbAssign[release.id] ELSE <<>>)
            IN /\ releaseFeatureMap' =
                    IF featureIds.thrown THEN releaseFeatureMap
                    ELSE MapSet(releaseFeatureMap, release.id, featureIds.value)
               /\ pc' = After(featureIds, pc)
               /\ trace' = trace \o <<Call("source", "assignments", release.id)>>
                             \o (IF featureIds.thrown THEN <<>> ELSE <<sleep("50")>>)
               /\ logged' = logged \o featureIds.lines
                              \o (IF featureIds.thrown THEN <<>>
                                  ELSE Progress("ok", release.id))
               /\ Faulted(FaultIf(~ok, "assignments", release.id))
               /\ i' = i + 1
               /\ UNCHANGED featureIdsArray
  /\ UNCHANGED <<srcVars, storeVars, startCursor, idMap, releases, features,
                 syncVars, histVars>>

\* releaseIds collected from the last release of the map to the first
releaseIdsOf_Reversed(map, featureId) ==
  LET hit == SelectSeq(map, LAMBDA e : Includes(e.value, featureId))
  IN [n \in 1..Len(hit) |-> hit[Len(hit) + 1 - n].key]

\* the releases whose assignment list holds the feature, in the map's order
releaseIdsOf(map, featureId) ==
  LET hit == SelectSeq(map, LAMBDA e : Includes(e.value, featureId))
  IN [n \in 1..Len(hit) |-> hit[n].key]

\* main: one pass of the loop that fetches the details of featureIdsArray[i]
FetchDetails ==
  /\ pc = "FetchingDetails"
  /\ IF i > Len(featureIdsArray)
     THEN /\ pc' = PhaseAfter(pc)
          /\ i' = 1
          /\ UNCHANGED <<features, trace, logged, faultsLeft, faultLog>>
     ELSE \E ok \in Outcomes(faultsLeft) :
            LET featureId == featureIdsArray[i]
                releaseIds == releaseIdsOf(releaseFeatureMap, featureId)
                feature == fetchFeatureDetails(featureId, ok, pbFeatures[featureId])
            IN /\ features' =
                    IF ~feature.thrown /\ feature.value # NullObj
                    THEN Append(features,
                                [id |-> feature.value.id, name |-> feature.value.name,
                                 status |-> feature.value.status,
                                 health |-> feature.value.health,
                                 productManager |-> feature.value.productManager,
                                 productboardLink |-> feature.value.productboardLink,
                                 releaseId |-> OrNull(First(releaseIds)),
                                 releaseIds |-> releaseIds])
                    ELSE features
               /\ pc' = After(feature, pc)
               /\ trace' = trace \o <<Call("source", "details", featureId)>>
                             \o (IF feature.thrown THEN <<>> ELSE <<sleep("50")>>)
               /\ logged' = logged \o feature.lines
                              \o (IF feature.thrown THEN <<>>
                                  ELSE IF feature.value # NullObj
                                       THEN Progress("ok", featureId)
                                       ELSE Progress("skipped", featureId))
               /\ Faulted(FaultIf(~ok, "details", featureId))
               /\ i' = i + 1
  /\ UNCHANGED <<srcVars, storeVars, startCursor, idMap, releases, releaseFeatureMap,
                 featureIdsArray, syncVars, histVars>>

\* ------------------------------------------------------------- main(): sync
Bump(st, type, counter) == [st EXCEPT ![type][counter] = @ + 1]

\* the entries one create or update call leaves in notionPayloads
PayloadEntries(operation, type, payload, pageId, ok, resultId) ==
  <<logNotionPayload(operation, type, payload, pageId, Null)>>
    \o (IF ok THEN <<logNotionPayload(operation, type, payload, resultId, resultId)>>
        ELSE <<>>)

\* a lookup that gives the first page of the identity map, whatever its external id
LookupPage_FirstEntry(map, id) == IF Len(map) > 0 THEN map[1].value ELSE Undefined

\* idMap.releases.get(release.id) / idMap.features.get(feature.id)
LookupPage(map, id) == MapGet(map, id)

\* a create that leaves the identity map as it was
IndexCreated_Skipped(map, collection, id, pageId) == map

\* idMap.releases.set(release.id, page.id) / idMap.features.set(feature.id, page.id)
IndexCreated(map, collection, id, pageId) ==
  [map EXCEPT ![collection] = MapSet(@, id, pageId)]

\* main, step 3: one pass of the loop over releases
SyncRelease ==
  /\ pc = "SyncingReleases"
  /\ IF i > Len(releases)
     THEN /\ pc' = PhaseAfter(pc)
          /\ i' = 1
          /\ UNCHANGED <<notionReleases, idMap, syncVars, trace, logged,
                         faultsLeft, faultLog>>
     ELSE
       LET release == releases[i]
           notionPageId == LookupPage(idMap.releases, release.id)
           cleanedProperties == removeUndefinedProperties(mapReleaseToNotion(release))
       IN /\ i' = i + 1
          /\ IF Truthy(notionPageId)
             THEN \E readOk \in Outcomes(faultsLeft) :
               LET notionData == getNotionPageData(notionReleases, notionPageId,
                                                   "release", readOk, release.id)
                   pbData == [name |-> release.name, state |-> release.state,
                              releaseGroup |-> release.releaseGroup]
                   changes == IF notionData.value # NullObj
                              THEN detectChanges(notionData.value, pbData) ELSE NullObj
                   update == notionData.value # NullObj /\ changes # NullObj
                   left == IF readOk THEN faultsLeft ELSE faultsLeft - 1
               IN \E writeOk \in (IF update THEN Outcomes(left) ELSE {TRUE}) :
                    LET try == TryWrite(writeOk, "updateRelease", release.id)
                    IN /\ notionReleases' =
                            IF update /\ writeOk
                            THEN UpdatePage(notionReleases, notionPageId, cleanedProperties)
                            ELSE notionReleases
                       /\ notionPayloads' =
                            IF update
                            THEN notionPayloads \o PayloadEntries("update", "release",
                                   cleanedProperties, notionPageId, writeOk, notionPageId)
                            ELSE notionPayloads
                       /\ stats' = IF update
                                   THEN IF writeOk THEN Bump(stats, "releases", "updated")
                                        ELSE stats
                                   ELSE Bump(stats, "releases", "unchanged")
                       /\ releasePageMap' = MapSet(releasePageMap, release.id, notionPageId)
                       /\ detect' = IF notionData.value # NullObj
                                    THEN Detected(notionData.value, pbData) ELSE detect
                       /\ pc' = After(try, pc)
                       /\ trace' = trace
                            \o <<Call("target", "retrieve", release.id), sleep("350")>>
                            \o (IF update THEN <<Call("target", "update", release.id)>>
                                ELSE <<>>)
                            \o (IF try.thrown THEN <<>> ELSE <<sleep("350")>>)
                       /\ logged' = logged \o notionData.lines \o try.lines
                       /\ Faulted(FaultIf(~readOk, "retrieveRelease", release.id)
                                    \cup FaultIf(~writeOk, "updateRelease", release.id))
                       /\ UNCHANGED <<idMap, featurePageMap>>
             ELSE \E ok \in Outcomes(faultsLeft) :
                    LET try == TryWrite(ok, "createRelease", release.id)
                    IN /\ notionReleases' =
                            IF ok
                            THEN CreatePage(notionReleases, EmptyReleaseProps, NextPageId,
                                            cleanedProperties)
                            ELSE notionReleases
                       /\ notionPayloads' = notionPayloads \o PayloadEntries("create",
                                   "release", cleanedProperties, Null, ok, NextPageId)
                       /\ releasePageMap' =
                            IF ok THEN MapSet(releasePageMap, release.id, NextPageId)
                            ELSE releasePageMap
                       /\ idMap' =
                            IF ok THEN IndexCreated(idMap, "releases", release.id, NextPageId)
                            ELSE idMap
                       /\ stats' = IF ok THEN Bump(stats, "releases", "created") ELSE stats
                       /\ pc' = After(try, pc)
                       /\ trace' = trace \o <<Call("target", "create", release.id)>>
                                     \o (IF try.thrown THEN <<>> ELSE <<sleep("350")>>)
                       /\ logged' = logged \o try.lines
                       /\ Faulted(FaultIf(~ok, "createRelease", release.id))
                       /\ UNCHANGED <<featurePageMap, detect>>
  /\ UNCHANGED <<srcVars, notionFeatures, startCursor, fetchVars, histVars>>

\* main, step 4: one pass of the loop over features
SyncFeature ==
  /\ pc = "SyncingFeatures"
  /\ IF i > Len(features)
     THEN /\ pc' = PhaseAfter(pc)
          /\ i' = 1
          /\ UNCHANGED <<notionFeatures, idMap, syncVars, trace, logged,
                         faultsLeft, faultLog>>
     ELSE
       LET feature == features[i]
           notionPageId == LookupPage(idMap.features, feature.id)
           releasePageId == IF Truthy(feature.releaseId)
                            THEN MapGet(releasePageMap, feature.releaseId) ELSE Null
           cleanedProperties ==
             removeUndefinedProperties(mapFeatureToNotion(feature, releasePageId))
       IN /\ i' = i + 1
          /\ IF Truthy(notionPageId)
             THEN \E readOk \in Outcomes(faultsLeft) :
               LET notionData == getNotionPageData(notionFeatures, notionPageId,
                                                   "feature", readOk, feature.id)
                   pbData == [name |-> feature.name, status |-> feature.status,
                              health |-> feature.health,
                              productManager |-> feature.productManager,
                              productboardLink |-> feature.productboardLink,
                              releaseId |-> releasePageId]
                   releaseChanged == notionData.value # NullObj
                                       /\ notionData.value.releaseId # releasePageId
                   changes == IF notionData.value # NullObj
                              THEN detectChanges(notionData.value, pbData) ELSE NullObj
                   update == notionData.value # NullObj
                               /\ (changes # NullObj \/ releaseChanged)
                   left == IF readOk THEN faultsLeft ELSE faultsLeft - 1
               IN \E writeOk \in (IF update THEN Outcomes(left) ELSE {TRUE}) :
                    LET try == TryWrite(writeOk, "updateFeature", feature.id)
                    IN /\ notionFeatures' =
                            IF update /\ writeOk
                            THEN UpdatePage(notionFeatures, notionPageId, cleanedProperties)
                            ELSE notionFeatures
                       /\ notionPayloads' =
                            IF update
                            THEN notionPayloads \o PayloadEntries("update", "feature",
                                   cleanedProperties, notionPageId, writeOk, notionPageId)
                            ELSE notionPayloads
                       /\ stats' = IF update
                                   THEN IF writeOk THEN Bump(stats, "features", "updated")
                                        ELSE stats
                                   ELSE Bump(stats, "features", "unchanged")
                       /\ featurePageMap' = MapSet(featurePageMap, feature.id, notionPageId)
                       /\ detect' = IF notionData.value # NullObj
                                    THEN Detected(notionData.value, pbData) ELSE detect
                       /\ pc' = After(try, pc)
                       /\ trace' = trace
                            \o <<Call("target", "retrieve", feature.id), sleep("350")>>
                            \o (IF update THEN <<Call("target", "update", feature.id)>>
                                ELSE <<>>)
                            \o (IF try.thrown THEN <<>> ELSE <<sleep("350")>>)
                       /\ logged' = logged \o notionData.lines \o try.lines
                       /\ Faulted(FaultIf(~readOk, "retrieveFeature", feature.id)
                                    \cup FaultIf(~writeOk, "updateFeature", feature.id))
                       /\ UNCHANGED <<idMap, releasePageMap>>
             ELSE \E ok \in Outcomes(faultsLeft) :
                    LET try == TryWrite(ok, "createFeature", feature.id)
                    IN /\ notionFeatures' =
                            IF ok
                            THEN CreatePage(notionFeatures, EmptyFeatureProps, NextPageId,
                                            cleanedProperties)
                            ELSE notionFeatures
                       /\ notionPayloads' = notionPayloads \o PayloadEntries("create",
                                   "feature", cleanedProperties, Null, ok, NextPageId)
                       /\ featurePageMap' =
                            IF ok THEN MapSet(featurePageMap, feature.id, NextPageId)
                            ELSE featurePageMap
                       /\ idMap' =
                            IF ok THEN IndexCreated(idMap, "features", feature.id, NextPageId)
                            ELSE idMap
                       /\ stats' = IF ok THEN Bump(stats, "features", "created") ELSE stats
                       /\ pc' = After(try, pc)
                       /\ trace' = trace \o <<Call("target", "create", feature.id)>>
                                     \o (IF try.thrown THEN <<>> ELSE <<sleep("350")>>)
                       /\ logged' = logged \o try.lines
                       /\ Faulted(FaultIf(~ok, "createFeature", feature.id))
                       /\ UNCHANGED <<releasePageMap, detect>>
  /\ UNCHANGED <<srcVars, notionReleases, startCursor, fetchVars, histVars>>

\* featuresByRelease built from each feature's primary release only
featuresByRelease_PrimaryOnly(releaseId) ==
  SelectSeq(features, LAMBDA f : f.releaseId = releaseId)

\* main, step 5: featuresByRelease.get(release.id)
featuresByRelease(releaseId) ==
  LET featureIds == IF MapHas(releaseFeatureMap, releaseId)
                    THEN MapGet(releaseFeatureMap, releaseId) ELSE <<>>
  IN SelectSeq(features, LAMBDA f : Includes(featureIds, f.id))

\* releaseFeatures.map(f => featurePageMap.get(f.id)).filter(Boolean)
featurePageIdsOf(releaseFeatures) ==
  SelectSeq([n \in 1..Len(releaseFeatures) |->
               MapGet(featurePageMap, releaseFeatures[n].id)], Truthy)

\* the relation loop without its test of featurePageIds.length
SendsRelations_Always(releasePageId, featurePageIds) == Truthy(releasePageId)

\* main, step 5: the release is not skipped (continue) and has feature pages to link
SendsRelations(releasePageId, featurePageIds) ==
  Truthy(releasePageId) /\ Len(featurePageIds) > 0

\* main, step 5: one pass of the loop that rewrites the "Features" relation of
\* releases[i]; after the last pass the summary is written
UpdateRelations ==
  /\ pc = "UpdatingRelations"
  /\ IF i > Len(releases)
     THEN /\ pc' = PhaseAfter(pc)
          /\ UNCHANGED <<i, notionReleases, notionPayloads, trace, logged,
                         faultsLeft, faultLog>>
     ELSE
       LET release == releases[i]
           releasePageId == MapGet(releasePageMap, release.id)
           featurePageIds == featurePageIdsOf(featuresByRelease(release.id))
           call == SendsRelations(releasePageId, featurePageIds)
           payload == [k \in {"Features"} |-> [relation |-> featurePageIds]]
       IN /\ i' = i + 1
          /\ \E ok \in (IF call THEN Outcomes(faultsLeft) ELSE {TRUE}) :
               LET try == TryWrite(ok, "updateRelations", release.id)
               IN /\ notionReleases' =
                       IF call /\ ok
                       THEN UpdatePage(notionReleases, releasePageId, payload)
                       ELSE notionReleases
                  /\ notionPayloads' =
                       IF call
                       THEN notionPayloads \o PayloadEntries("update", "release-relations",
                              payload, releasePageId, ok, releasePageId)
                       ELSE notionPayloads
                  /\ pc' = After(try, pc)
                  /\ trace' = IF call
                              THEN trace \o <<Call("target", "updateRelations", release.id)>>
                                     \o (IF try.thrown THEN <<>> ELSE <<sleep("350")>>)
                              ELSE trace
                  /\ logged' = logged \o try.lines
                  /\ Faulted(FaultIf(~ok, "updateRelations", release.id))
  /\ UNCHANGED <<srcVars, notionFeatures, startCursor, idMap, fetchVars, stats,
                 releasePageMap, featurePageMap, detect, histVars>>

\* ------------------------------------------------------------- the source, seen from outside
SourceReleases == fetchAllReleases(pbReleases)

SourceReleaseIds == {pbReleases[n].id : n \in 1..Len(pbReleases)}

\* the releases a feature is assigned to, in the order of the release list
AssignedReleases(f) ==
  LET hit == SelectSeq(pbReleases, LAMBDA r : Includes(pbAssign[r.id], f))
  IN [n \in 1..Len(hit) |-> hit[n].id]

AssignedFeatureIds == {f \in DOMAIN pbFeatures : AssignedReleases(f) # <<>>}

PrimaryRelease(f) == IF AssignedReleases(f) = <<>> THEN Null ELSE AssignedReleases(f)[1]

Range(seq) == {seq[n] : n \in 1..Len(seq)}

ReleasePagesOf(id) ==
  {p \in Range(notionReleases) : p.properties["Productboard ID"].rich_text = <<id>>}

FeaturePagesOf(id) ==
  {p \in Range(notionFeatures) : p.properties["Feature ID"].rich_text = <<id>>}

PageIdsOf(pages) == {p.id : p \in pages}

Text(v) == IF Truthy(v) THEN <<v>> ELSE <<>>

\* the page holds the release's tracked values
ReleasePageMatches(p, r) ==
  /\ p.properties["Name"].title = <<r.name>>
  /\ p.properties["State"].select = OrNull(r.state)
  /\ p.properties["Release Group"].rich_text = Text(r.releaseGroup)

\* the page holds the feature's tracked values and is linked to its primary release's page
FeaturePageMatches(p, f) ==
  /\ p.properties["Name"].title = <<f.name>>
  /\ p.properties["Status"].select = OrNull(f.status)
  /\ p.properties["Health Status"].select = normalizeHealth(f.health)
  /\ p.properties["Product Manager"].rich_text = Text(f.pm)
  /\ p.properties["Productboard Link"].url = OrNull(f.link)
  /\ \E rp \in ReleasePagesOf(PrimaryRelease(f.id)) :
       p.properties["Release"].relation = <<rp.id>>

Converged ==
  /\ \A n \in 1..Len(pbReleases) :
       \E p \in ReleasePagesOf(pbReleases[n].id) : ReleasePageMatches(p, pbReleases[n])
  /\ \A f \in AssignedFeatureIds :
       \E p \in FeaturePagesOf(f) : FeaturePageMatches(p, pbFeatures[f])

\* ------------------------------------------------------------- runs and edits
\* node scripts/sync-productboard-to-notion.js: main() starts
StartRun ==
  /\ pc \in {"Idle", "Done", "Failed", "Killed"}
  /\ runNo < MaxRuns
  /\ runNo' = runNo + 1
  /\ prevClean' = (pc = "Done" /\ faultLog = {})
  /\ chg' = IF pc = "Idle" THEN chg
            ELSE [n |-> 0, conv |-> Converged, kind |-> "none", id |-> Null]
  /\ \E e \in Envs(faultsLeft) :
       /\ env' = e
       /\ IF ValidEnv(e)
          THEN /\ pc' = "IndexReleases"
               /\ logged' = <<>>
               /\ faultsLeft' = faultsLeft
          ELSE /\ pc' = "Failed"
               /\ logged' = <<LogLine("error", "env", "main")>>
                               \o Thrown("env", "main").lines
               /\ faultsLeft' = faultsLeft - 1
  /\ startCursor' = 0
  /\ idMap' = [releases |-> <<>>, features |-> <<>>]
  /\ releases' = <<>>
  /\ releaseFeatureMap' = <<>>
  /\ featureIdsArray' = <<>>
  /\ features' = <<>>
  /\ i' = 1
  /\ stats' = ZeroStats
  /\ releasePageMap' = <<>>
  /\ featurePageMap' = <<>>
  /\ notionPayloads' = <<>>
  /\ detect' = NoCall
  /\ trace' = <<>>
  /\ faultLog' = {}
  /\ UNCHANGED <<srcVars, storeVars, changesLeft>>

Edited(kind, id) ==
  [n |-> IF pc = "Idle" THEN chg.n + 1 ELSE 1,
   conv |-> IF pc = "Idle" /\ chg.n > 0 THEN chg.conv ELSE Converged,
   kind |-> kind, id |-> id]

\* one edit of the source between two runs
SourceChange ==
  /\ pc \in {"Idle", "Done", "Failed"}
  /\ changesLeft > 0
  /\ runNo < MaxRuns
  /\ \/ \E n \in {m \in 1..Len(pbReleases) : pbReleases[m].id \in EditedRecords},
             f \in ReleaseFields :
          \E v \in FieldValues(f) \ {pbReleases[n][f]} :
            /\ pbReleases' = [pbReleases EXCEPT ![n][f] = v]
            /\ chg' = Edited("release", pbReleases[n].id)
            /\ UNCHANGED <<pbAssign, pbFeatures>>
     \/ \E id \in DOMAIN pbFeatures \cap EditedRecords, f \in FeatureFields :
          \E v \in FieldValues(f) \ {pbFeatures[id][f]} :
            /\ pbFeatures' = [pbFeatures EXCEPT ![id][f] = v]
            /\ chg' = Edited("feature", id)
            /\ UNCHANGED <<pbReleases, pbAssign>>
     \/ \E r \in DOMAIN pbAssign, f \in DOMAIN pbFeatures \cap EditedRecords :
          /\ pbAssign' = [pbAssign EXCEPT ![r] =
                            IF Includes(@, f) THEN SelectSeq(@, LAMBDA x : x # f)
                            ELSE Append(@, f)]
          /\ chg' = Edited("assignment", f)
          /\ UNCHANGED <<pbReleases, pbFeatures>>
  /\ changesLeft' = changesLeft - 1
  /\ pc' = "Idle"
  /\ UNCHANGED <<storeVars, startCursor, idMap, fetchVars, i, syncVars, trace, logged,
                 faultLog, faultsLeft, runNo, prevClean, env>>

Next ==
  \/ StartRun
  \/ QueryReleases
  \/ QueryFeatures
  \/ FetchReleases
  \/ FetchAssignments
  \/ FetchDetails
  \/ SyncRelease
  \/ SyncFeature
  \/ UpdateRelations
  \/ SourceChange

Spec == Init /\ [][Next]_vars

\* the statements of main(): a started run is a sequential program that keeps executing
RunStep ==
  \/ QueryReleases
  \/ QueryFeatures
  \/ FetchReleases
  \/ FetchAssignments
  \/ FetchDetails
  \/ SyncRelease
  \/ SyncFeature
  \/ UpdateRelations

FairSpec == Spec /\ WF_vars(RunStep)

\* the values lastHealthUpdate.status of a feature may have in the source's response:
\* missing, null, empty, and labels in mixed and in lower case
RawHealth == {Undefined, Null, "", "On-Track", "At-Risk", "off-track"}

\* the runs of main() over a source whose features have any of the raw health values
InputInit ==
  /\ pbReleases = InitReleases
  /\ pbAssign = InitAssign
  /\ pbFeatures \in {[f \in DOMAIN InitFeatures |->
                         [InitFeatures[f] EXCEPT !.health = h[f]]] :
                       h \in [DOMAIN InitFeatures -> RawHealth]}
  /\ InitRun

RunNext == StartRun \/ RunStep

InputSpec == InputInit /\ [][RunNext]_vars

\* every variable of main() but the record of the call of detectChanges
mainVars == <<srcVars, storeVars, pc, startCursor, idMap, fetchVars, i, stats,
              releasePageMap, featurePageMap, notionPayloads, trace, logged, faultLog,
              faultsLeft, histVars>>

\* the fields newData names, and a key only oldData may hold
DetectFields == {"name", "state"}
OtherKeys == {"url"}

\* the values a field may have: missing, null, strings, and a number
DetectValues == {Undefined, Null, "", "a", "7", Seven}

\* oldData: any of the keys may be absent; newData: every tracked field is a key
DetectOld == UNION {[D -> DetectValues] : D \in SUBSET (DetectFields \cup OtherKeys)}
DetectNew == [DetectFields -> DetectValues]

\* the call has its arguments and has not returned
Pending == [pending |-> TRUE]

\* detectChanges about to be called on any pair of arguments
DetectInit ==
  /\ pbReleases = InitReleases
  /\ pbAssign = InitAssign
  /\ pbFeatures = InitFeatures
  /\ InitIdle
  /\ detect \in {[oldData |-> o, newData |-> n, changes |-> Pending] :
                   o \in DetectOld, n \in DetectNew}

\* detectChanges(oldData, newData) returns
CallDetectChanges ==
  /\ detect.changes = Pending
  /\ detect' = Detected(detect.oldData, detect.newData)
  /\ UNCHANGED mainVars

DetectSpec == DetectInit /\ [][CallDetectChanges]_vars

\* ------------------------------------------------------------- runs that are interrupted
\* the positions of main() while a run is under way
Running == {"IndexReleases", "IndexFeatures", "FetchingReleases", "FetchingAssignments",
            "FetchingDetails", "SyncingReleases", "SyncingFeatures", "UpdatingRelations"}

\* the process is terminated between two passes of main(): the run stops where it is,
\* the target store keeps what the calls made so far have written
Terminate ==
  /\ pc \in Running
  /\ pc' = "Killed"
  /\ UNCHANGED <<srcVars, storeVars, startCursor, idMap, fetchVars, i, syncVars, trace,
                 logged, faultLog, faultsLeft, histVars>>

KillNext == StartRun \/ RunStep \/ Terminate

KillSpec == Init /\ [][KillNext]_vars

\* ------------------------------------------------------------- runs over a store that holds pages
\* a page of the Releases database and a page of the Features database
ReleasePage(pageId, pbId, name, state, releaseGroup, featurePages) ==
  [id |-> pageId,
   properties |-> [EmptyReleaseProps EXCEPT
                     !["Name"] = [title |-> Text(name)],
                     !["Productboard ID"] = [rich_text |-> Text(pbId)],
                     !["State"] = [select |-> OrNull(state)],
                     !["Release Group"] = [rich_text |-> Text(releaseGroup)],
                     !["Features"] = [relation |-> featurePages]]]

FeaturePage(pageId, pbId, name, status, health, pm, link, releasePages) ==
  [id |-> pageId,
   properties |-> [EmptyFeatureProps EXCEPT
                     !["Name"] = [title |-> Text(name)],
                     !["Feature ID"] = [rich_text |-> Text(pbId)],
                     !["Status"] = [select |-> OrNull(status)],
                     !["Health Status"] = [select |-> OrNull(health)],
                     !["Product Manager"] = [rich_text |-> Text(pm)],
                     !["Productboard Link"] = [url |-> OrNull(link)],
                     !["Release"] = [relation |-> releasePages]]]

\* the store an earlier run left when its create of release r1 failed: r2 has its page,
\* f1 was created without a Release relation, f2 is linked to r2
StoreAfterFailedCreate ==
  [name |-> "failedCreate",
   pbReleases |-> InitReleases,
   pbAssign |-> InitAssign,
   notionReleases |-> <<ReleasePage("p1", "r2", "Beta", Null, Null, <<"p3">>)>>,
   notionFeatures |->
     <<FeaturePage("p2", "f1", "Alpha", "planned", "on-track", "pm@x.io",
                   "https://pb/f", <<>>),
       FeaturePage("p3", "f2", "Beta", Null, "unknown", Null, Null, <<"p1">>)>>]

\* a store that holds pages the source does not have: the pages of a release r0 and of a
\* feature f0 that have left the source, and pages made by hand, without an external id
StoreWithForeignPages ==
  [name |-> "foreign",
   pbReleases |-> InitReleases,
   pbAssign |-> InitAssign,
   notionReleases |->
     <<ReleasePage("p1", "r0", "Old", "released", "g0", <<"p3">>),
       ReleasePage("p2", Null, "Notes", Null, Null, <<>>)>>,
   notionFeatures |->
     <<FeaturePage("p3", "f0", "Old", "done", "on-track", "pm@x.io", Null, <<"p1">>),
       FeaturePage("p4", Null, "Idea", Null, Null, Null, Null, <<>>)>>]

\* an empty store, and a release list in which the source names release r1 twice
SourceRepeatsRelease ==
  [name |-> "repeated",
   pbReleases |-> Append(InitReleases, InitReleases[1]),
   pbAssign |-> InitAssign,
   notionReleases |-> <<>>,
   notionFeatures |-> <<>>]

\* an empty store, and a source in which feature f1 is assigned to both releases
SourceSharesFeature ==
  [name |-> "shared",
   pbReleases |-> InitReleases,
   pbAssign |-> [r \in {"r1", "r2"} |-> IF r = "r1" THEN <<"f1">> ELSE <<"f1", "f2">>],
   notionReleases |-> <<>>,
   notionFeatures |-> <<>>]

Scenarios == {StoreAfterFailedCreate, StoreWithForeignPages, SourceRepeatsRelease,
              SourceSharesFeature}

\* main() is run over one of the scenarios
StoreInit ==
  /\ \E sc \in Scenarios :
       /\ pbReleases = sc.pbReleases
       /\ pbAssign = sc.pbAssign
       /\ notionReleases = sc.notionReleases
       /\ notionFeatures = sc.notionFeatures
  /\ pbFeatures = InitFeatures
  /\ InitMain
  /\ detect = NoCall

StoreSpec == StoreInit /\ [][RunNext]_vars

\* ------------------------------------------------------------- properties
\* the create / update calls of this run that were sent for one entity type
Attempts(operation, type) ==
  Cardinality({n \in 1..Len(notionPayloads) :
                 /\ notionPayloads[n].operation = operation
                 /\ notionPayloads[n].type = type
                 /\ notionPayloads[n].result = Null})

\* the run reached the summary
Summarized == pc = "Done"

\* no network call of this run failed
CleanRun == faultLog = {}

\* no network call has failed since the first run started
NeverFailed == faultsLeft = MaxFaults

\* this run follows a run that reached the summary without a failed call, and the
\* source was not edited in between
SecondRun == prevClean /\ chg.n = 0

\* C1: idempotence.  When a run follows a run that completed without a failed call,
\* the source did not change in between and no call has ever failed, it sends no create and no update of the
\* tracked fields of any release or feature, and its summary counts every record as
\* unchanged (created = 0, updated = 0).
C1_Idempotence ==
  (Summarized /\ NeverFailed /\ SecondRun) =>
    /\ Attempts("create", "release") = 0
    /\ Attempts("update", "release") = 0
    /\ Attempts("create", "feature") = 0
    /\ Attempts("update", "feature") = 0
    /\ stats.releases = [created |-> 0, updated |-> 0, unchanged |-> Len(releases)]
    /\ stats.features = [created |-> 0, updated |-> 0, unchanged |-> Len(features)]

\* C2: no duplication.  In every state of every run, with or without failed creates,
\* updates and reads, each external id is carried by at most one page of the Releases
\* database and at most one page of the Features database.
C2_NoDuplication ==
  /\ \A id \in Range(RelIds) : Cardinality(ReleasePagesOf(id)) <= 1
  /\ \A id \in Range(FeatIds) : Cardinality(FeaturePagesOf(id)) <= 1

\* a later run has completed, a call has failed on the way, and every source record
\* has its page
C2_Witness ==
  /\ Summarized /\ runNo >= 2 /\ faultsLeft < MaxFaults
  /\ \A id \in Range(RelIds) : Cardinality(ReleasePagesOf(id)) = 1
  /\ \A id \in Range(FeatIds) : Cardinality(FeaturePagesOf(id)) = 1

\* C3: convergence.  After a run in which no network call fails (here: none has failed
\* in any run), every source release and every source feature has a page that carries
\* its external id and its tracked values, also when the source value of a field is
\* absent while the page held a value for it.
C3_Convergence == (Summarized /\ NeverFailed) => Converged

\* the page-update calls of this run sent to pages of one entity type
UpdateCalls(kind) ==
  IF kind = "release"
  THEN Attempts("update", "release") + Attempts("update", "release-relations")
  ELSE Attempts("update", "feature")

\* C4: change isolation.  When the store was converged, exactly one tracked field of one
\* source record was then edited, and the sync is re-run without a failed call, the run
\* sends exactly one page update to pages of the edited entity type and no create, and
\* the summary reports updated = 1 for that type and 0 for the other.
C4_ChangeIsolation ==
  (Summarized /\ NeverFailed /\ chg.n = 1 /\ chg.conv /\ chg.kind \in {"release", "feature"}) =>
    /\ UpdateCalls(chg.kind) = 1
    /\ Attempts("create", "release") = 0
    /\ Attempts("create", "feature") = 0
    /\ stats.releases.updated = (IF chg.kind = "release" THEN 1 ELSE 0)
    /\ stats.features.updated = (IF chg.kind = "feature" THEN 1 ELSE 0)

\* the features the source assigns to a release
AssignedTo(r) == {f \in DOMAIN pbFeatures : Includes(pbAssign[r], f)}

FeaturesRelation(rp) == rp.properties["Features"].relation

\* the "Features" relation of the release's page lists exactly the pages of these features
RelationIs(r, fs) ==
  \E rp \in ReleasePagesOf(r) :
    /\ Range(FeaturesRelation(rp)) = PageIdsOf(UNION {FeaturePagesOf(f) : f \in fs})
    /\ Len(FeaturesRelation(rp)) = Cardinality(fs)

C6_FeatureReleaseRelation ==
  (Summarized /\ NeverFailed) =>
    \A p \in Range(notionFeatures) :
      \A f \in DOMAIN pbFeatures :
        p.properties["Feature ID"].rich_text = <<f>> =>
          IF PrimaryRelease(f) = Null
          THEN p.properties["Release"].relation = <<>>
          ELSE \E rp \in ReleasePagesOf(PrimaryRelease(f)) :
                 p.properties["Release"].relation = <<rp.id>>

\* C7: after a run (without a failed call) the "Features" relation of every release page
\* is exactly the set of pages of the features whose primary release is that release.
C7_ReleaseFeaturesArePrimary ==
  (Summarized /\ NeverFailed) =>
    \A r \in SourceReleaseIds :
      RelationIs(r, {f \in DOMAIN pbFeatures : PrimaryRelease(f) = r})

\* C8: a run that follows a completed run, with no edit of the source in between (and no
\* failed call ever), sends no page create and no page update of any kind.
C8_SecondRunReadOnly ==
  (Summarized /\ NeverFailed /\ SecondRun) => notionPayloads = <<>>

\* the calls whose error leaves main(): the index queries and the release list
FatalCalls == {"query", "releases"}

\* the per-item calls to the source
SourceItemCalls == {"assignments", "details"}

\* the page create, page update and relation update calls to the target
WriteCalls == {"createRelease", "updateRelease", "createFeature", "updateFeature",
               "updateRelations"}

\* the features whose detail fetch failed in this run
FailedDetails == {f \in Range(FeatIds) : Fault("details", f) \in faultLog}

\* the releases that list the feature in the source and whose assignment fetch did not
\* fail in this run, in the order of the release list
SeenReleases(f) ==
  SelectSeq(AssignedReleases(f), LAMBDA r : Fault("assignments", r) \notin faultLog)

\* the run sent a call of one of these kinds to the target for the record
Attempted(calls, id) ==
  \E n \in 1..Len(trace) :
    trace[n].ev = "target" /\ trace[n].call \in calls /\ trace[n].id = id

\* the warnings the log of this run holds for the detail fetch of the feature
DetailWarnings(f) ==
  Cardinality({n \in 1..Len(logged) :
                 logged[n] = LogLine("warning", "details", f)})

\* the value the source supplies is the value the page holds
Holds(held, supplied) == Truthy(supplied) => held = supplied

\* the page carries what the source supplies for the feature, and is linked to the page
\* of the first release this run saw the feature in
FeaturePageSynced(p, f) ==
  /\ p.properties["Name"].title = <<pbFeatures[f].name>>
  /\ Holds(p.properties["Status"].select, pbFeatures[f].status)
  /\ Holds(p.properties["Health Status"].select, normalizeHealth(pbFeatures[f].health))
  /\ p.properties["Product Manager"].rich_text = Text(pbFeatures[f].pm)
  /\ Holds(p.properties["Productboard Link"].url, pbFeatures[f].link)
  /\ \E rp \in ReleasePagesOf(SeenReleases(f)[1]) :
       p.properties["Release"].relation = <<rp.id>>

\* C9, in every state: a failed assignment or detail fetch never ends the run; the
\* feature whose detail fetch failed gets exactly one warning (the console.error line of
\* fetchFeatureDetails; the "Skipped" that closes the loop's progress line is logged as
\* progress, like the mark of a fetched feature) and no call to the target; and once the summary is reached in a run whose only failed calls were
\* per-item source fetches, every other feature the run saw in a release has exactly one
\* page, which carries the values the source supplies for it.
C9_Tolerated ==
  /\ (faultLog # {} /\ \A fl \in faultLog : fl.call \in SourceItemCalls) => pc # "Failed"
  /\ \A f \in Range(FeatIds) :
       DetailWarnings(f) = (IF f \in FailedDetails THEN 1 ELSE 0)
  /\ \A f \in FailedDetails :
       /\ ~Attempted({"retrieve", "create", "update", "updateRelations"}, f)
       /\ \A n \in 1..Len(notionPayloads) :
            "Feature ID" \in DOMAIN notionPayloads[n].payload =>
              notionPayloads[n].payload["Feature ID"].rich_text # <<f>>
  /\ (Summarized /\ \A fl \in faultLog : fl.call \in SourceItemCalls) =>
       \A f \in Range(FeatIds) \ FailedDetails :
         SeenReleases(f) # <<>> =>
           /\ Attempted({"retrieve", "create"}, f)
           /\ Cardinality(FeaturePagesOf(f)) = 1
           /\ \A p \in FeaturePagesOf(f) : FeaturePageSynced(p, f)

\* C9: per-item source fault tolerance.  C9_Tolerated holds in every state, and a run
\* that has fetched the release list always reaches the summary, whatever assignment and
\* detail fetches fail.
C9_SourceFaultTolerance ==
  /\ []C9_Tolerated
  /\ (pc \in {"FetchingAssignments", "FetchingDetails"}) ~> Summarized

\* the detail fetch failed for exactly one of two assigned features; the run reached the
\* summary, warned once, and created the page of the other feature
C9_Witness ==
  /\ Summarized
  /\ \E f \in Range(FeatIds) :
       /\ faultLog = {Fault("details", f)}
       /\ DetailWarnings(f) = 1
       /\ \E g \in Range(FeatIds) \ {f} :
            /\ AssignedFeatureIds = {f, g}
            /\ Attempted({"create"}, g)
            /\ \E p \in FeaturePagesOf(g) : FeaturePageSynced(p, g)

\* the features this run fetched that the release lists and that have a page
LinkablePages(r) ==
  {n \in 1..Len(features) :
     /\ Includes(IF MapHas(releaseFeatureMap, r) THEN MapGet(releaseFeatureMap, r) ELSE <<>>,
                 features[n].id)
     /\ FeaturePagesOf(features[n].id) # {}}

\* C10, in every state: a run in which a page create, a page update or a relation update
\* has failed is not in Failed; and at the summary every release and every feature the
\* run fetched has had its retrieve or its create sent, and every release that has a page
\* and a feature page to link has had its relation update sent.
C10_Absorbed ==
  /\ (\E fl \in faultLog : fl.call \in WriteCalls) => pc # "Failed"
  /\ Summarized =>
       /\ \A n \in 1..Len(releases) : Attempted({"retrieve", "create"}, releases[n].id)
       /\ \A n \in 1..Len(features) : Attempted({"retrieve", "create"}, features[n].id)
       /\ \A n \in 1..Len(releases) :
            (ReleasePagesOf(releases[n].id) # {} /\ LinkablePages(releases[n].id) # {}) =>
              Attempted({"updateRelations"}, releases[n].id)

\* C10: per-record target errors are absorbed.  C10_Absorbed holds in every state, and a
\* run that has entered the sync of the releases always reaches Done, whatever creates,
\* updates and relation updates fail.
C10_TargetErrorsAbsorbed ==
  /\ []C10_Absorbed
  /\ (pc \in {"SyncingReleases", "SyncingFeatures", "UpdatingRelations"}) ~> (pc = "Done")

\* a create, an update or a relation update failed, and the run reached Done having sent
\* the calls of the records after it
C10_Witness ==
  /\ pc = "Done"
  /\ \E fl \in faultLog :
       /\ fl.call \in WriteCalls
       /\ \E n \in 1..Len(releases) :
            releases[n].id # fl.id /\ Attempted({"updateRelations"}, releases[n].id)
       /\ \E n \in 1..Len(features) :
            features[n].id # fl.id /\ Attempted({"retrieve", "create"}, features[n].id)

\* the run has sent a page create, a page update or a relation update
WroteToTarget ==
  \/ notionPayloads # <<>>
  \/ \E n \in 1..Len(trace) :
       trace[n].ev = "target" /\ trace[n].call \in {"create", "update", "updateRelations"}

\* the run ended in Failed (pc is Idle once the source is edited after the run)
EndedFailed == pc \in {"Failed", "Idle"}

\* C11: fatal failures stop the run.  In every state of a run in which a query of the
\* index build or the fetch of the release list has failed, the run has ended in Failed
\* without reaching the summary, its last log line is the fatal error of main().catch,
\* and it has sent no page create, no page update and no relation update.
C11_FatalStops ==
  \A fl \in faultLog :
    fl.call \in FatalCalls =>
      /\ EndedFailed
      /\ logged # <<>> /\ logged[Len(logged)] = LogLine("fatal", fl.call, fl.id)
      /\ ~WroteToTarget

\* a run over a store that already holds the pages of an earlier run ended in Failed: one
\* because a query of the index failed, another because the release list failed
C11_Witness ==
  /\ pc = "Failed" /\ runNo >= 2
  /\ Len(notionReleases) > 0 /\ Len(notionFeatures) > 0
  /\ Fault("releases", "all") \in faultLog
  /\ ~WroteToTarget

\* the network calls this run has made, to the source and to the target
NetworkCalls == SelectSeq(trace, LAMBDA e : e.ev \in {"source", "target"})

\* one of the four required configuration values is missing
ConfigMissing == \E k \in EnvKeys : env[k] = Undefined

\* C12: in every state of a run started with one of the four required configuration
\* values missing, the run has ended in Failed with the fatal error of main().catch as
\* its last log line, and has made no network call to the source or to the target.
C12_ConfigValidated ==
  ConfigMissing =>
    /\ EndedFailed
    /\ logged # <<>> /\ logged[Len(logged)] = LogLine("fatal", "env", "main")
    /\ NetworkCalls = <<>>
    /\ notionPayloads = <<>>

\* a run over a store that holds pages was started without the source API token and has
\* failed without a network call
C12_Witness ==
  /\ pc = "Failed" /\ runNo >= 2
  /\ Len(notionReleases) > 0
  /\ ~Truthy(env["PRODUCTBOARD_API_TOKEN"])
  /\ NetworkCalls = <<>>

\* the positions in the trace of the retrieve, create and update calls for releases,
\* for features, and of the relation updates
ReleaseCallsAt ==
  {n \in 1..Len(trace) : /\ trace[n].ev = "target"
                         /\ trace[n].call \in {"retrieve", "create", "update"}
                         /\ trace[n].id \in Range(RelIds)}

FeatureCallsAt ==
  {n \in 1..Len(trace) : /\ trace[n].ev = "target"
                         /\ trace[n].call \in {"retrieve", "create", "update"}
                         /\ trace[n].id \in Range(FeatIds)}

RelationCallsAt ==
  {n \in 1..Len(trace) : trace[n].ev = "target" /\ trace[n].call = "updateRelations"}

\* the ids of the records the calls at these positions were sent for
IdsAt(positions) == {trace[n].id : n \in positions}

\* the create and update payloads of this run that were sent for features
FeaturePayloadsAt ==
  {n \in 1..Len(notionPayloads) : notionPayloads[n].type = "feature"}

\* C13: phase ordering.  In every state: every call for a feature comes after every call
\* for a release, and once a call for a feature is sent every fetched release has had its
\* call; every relation update comes after every call for a feature, and once a relation
\* update is sent every fetched feature has had its call; and every feature payload sent
\* carries, as its Release relation, the page of the feature's primary release whenever
\* that release has a page.
C13_PhaseOrdering ==
  /\ \A n \in FeatureCallsAt :
       /\ \A m \in ReleaseCallsAt : m < n
       /\ \A k \in 1..Len(releases) : releases[k].id \in IdsAt(ReleaseCallsAt)
  /\ \A n \in RelationCallsAt :
       /\ \A m \in FeatureCallsAt : m < n
       /\ \A k \in 1..Len(features) : features[k].id \in IdsAt(FeatureCallsAt)
  /\ \A n \in FeaturePayloadsAt :
       \A k \in 1..Len(features) :
         ( /\ notionPayloads[n].payload["Feature ID"].rich_text = <<features[k].id>>
           /\ Truthy(features[k].releaseId)
           /\ ReleasePagesOf(features[k].releaseId) # {} ) =>
           /\ "Release" \in DOMAIN notionPayloads[n].payload
           /\ \E rp \in ReleasePagesOf(features[k].releaseId) :
                notionPayloads[n].payload["Release"].relation = <<rp.id>>

\* a first run over an empty store has created the release pages, then the feature pages
\* linked to them, then sent the relation updates
C13_Witness ==
  /\ Summarized /\ runNo = 1
  /\ Cardinality(ReleaseCallsAt) = 2 /\ Cardinality(FeatureCallsAt) = 2
  /\ Cardinality(RelationCallsAt) = 2
  /\ \A n \in FeaturePayloadsAt : "Release" \in DOMAIN notionPayloads[n].payload

\* the step in which the retrieve of the record's page fails
ReadFails(call, id) == Fault(call, id) \notin faultLog /\ Fault(call, id) \in faultLog'

\* what the step of a failed read does: a warning is logged, the run goes on, no create
\* or update is sent, the store is left alone, and the record is counted as unchanged
ReadFailureAbsorbed(type, id) ==
  /\ pc' \notin {"Failed", "Done"}
  /\ logged' = Append(logged, LogLine("warning", "retrieve", id))
  /\ notionPayloads' = notionPayloads
  /\ trace' = trace \o <<Call("target", "retrieve", id), sleep("350"), sleep("350")>>
  /\ UNCHANGED storeVars
  /\ stats' = [stats EXCEPT ![type].unchanged = @ + 1]

\* C14: in the step in which the read of an existing page fails, the run does not crash,
\* sends no update for the record, and adds exactly one to the unchanged counter of the
\* record's entity type, leaving every other counter as it was.
C14_ReadFailureUnchanged ==
  [][ /\ \A id \in Range(RelIds) :
           ReadFails("retrieveRelease", id) => ReadFailureAbsorbed("releases", id)
      /\ \A id \in Range(FeatIds) :
           ReadFails("retrieveFeature", id) => ReadFailureAbsorbed("features", id) ]_vars

\* the read of a feature's page failed in a run that follows an edit of that feature:
\* the run reached the summary having counted the feature as unchanged, without an update
C14_Witness ==
  /\ Summarized
  /\ \E f \in Range(FeatIds) :
       /\ Fault("retrieveFeature", f) \in faultLog
       /\ chg.kind = "feature" /\ chg.id = f
       /\ ~Attempted({"update", "create"}, f)
       /\ stats.features.unchanged = Len(features)

\* the records of one entity type the summary accounts for: the sum of its counters,
\* an error counter included if the summary has one
Counted(type) ==
  stats[type].created + stats[type].updated + stats[type].unchanged
    + (IF "error" \in DOMAIN stats[type] THEN stats[type].error ELSE 0)

\* the calls of one kind this run sent for the entity type and that succeeded
Succeeded(operation, type) ==
  Cardinality({n \in 1..Len(notionPayloads) :
                 /\ notionPayloads[n].operation = operation
                 /\ notionPayloads[n].type = type
                 /\ notionPayloads[n].result # Null})

\* C15: summary accuracy.  When the run reaches the summary, the counters of each entity
\* type add up to the number of records processed, also when creates or updates have
\* failed, and created and updated count exactly the calls that succeeded.
C15_SummaryAccuracy ==
  Summarized =>
    /\ Counted("releases") = Len(releases)
    /\ Counted("features") = Len(features)
    /\ stats.releases.created = Succeeded("create", "release")
    /\ stats.releases.updated = Succeeded("update", "release")
    /\ stats.features.created = Succeeded("create", "feature")
    /\ stats.features.updated = Succeeded("update", "feature")

\* the positions in the trace of the network calls to the target and to the source
TargetCallsAt == {n \in 1..Len(trace) : trace[n].ev = "target"}

SourceCallsAt == {n \in 1..Len(trace) : trace[n].ev = "source"}

\* a delay of this many milliseconds lies between the two positions of the trace
DelayBetween(ms, n, m) ==
  \E k \in (n + 1)..(m - 1) : trace[k].ev = "sleep" /\ trace[k].id = ms

\* C16: target rate-limit discipline.  In every state of every run, between any two
\* calls to the target (query, retrieve, create, update, relation update) a delay of
\* 350 ms lies, whether the earlier call succeeded or failed.
C16_TargetRateLimit ==
  \A n \in TargetCallsAt, m \in TargetCallsAt : n < m => DelayBetween("350", n, m)

\* a run in which a create, an update or a relation update failed has reached the
\* summary after further calls to the target
C16_Witness ==
  /\ Summarized
  /\ \E fl \in faultLog : fl.call \in WriteCalls
  /\ \E n \in TargetCallsAt :
       /\ trace[n].call \in {"create", "update", "updateRelations"}
       /\ \E fl \in faultLog : fl.call \in WriteCalls /\ fl.id = trace[n].id
       /\ \E m \in TargetCallsAt : n < m

\* C17: source rate-limit discipline.  In every state of every run, between any two
\* calls to the source (release list, assignments of a release, detail of a feature) a
\* delay of 50 ms lies, also between the release list and the first assignment call.
C17_SourceRateLimit ==
  \A n \in SourceCallsAt, m \in SourceCallsAt : n < m => DelayBetween("50", n, m)

\* the property that holds the external id in the pages of one entity type
IdProp(type) == IF type = "release" THEN "Productboard ID" ELSE "Feature ID"

\* the update payload at this position of the payload log names a page that stores the
\* external id the payload carries
UpdateKeepsId(n) ==
  LET e == notionPayloads[n]
      db == IF e.type = "release" THEN notionReleases ELSE notionFeatures
  IN /\ HasPage(db, e.pageId)
     /\ IdProp(e.type) \in DOMAIN e.payload
     /\ PageOf(db, e.pageId).properties[IdProp(e.type)] = e.payload[IdProp(e.type)]

\* in this step every page the database held keeps its page id and its external id, and
\* a page the step adds carries the external id of the record it was created for
IdsKept(db, dbNext, idProp, record) ==
  /\ Len(dbNext) >= Len(db)
  /\ \A n \in 1..Len(db) :
       /\ dbNext[n].id = db[n].id
       /\ dbNext[n].properties[idProp] = db[n].properties[idProp]
  /\ \A n \in (Len(db) + 1)..Len(dbNext) :
       dbNext[n].properties[idProp].rich_text = <<record.id>>

\* C18: the external id of a page is never overwritten.  In every state every update
\* payload sent to a release or feature page carries the external id the page stores;
\* and in every step every existing page keeps its external id, and a created page gets
\* the external id of the source record the loop is at.
C18_ExternalIdStable ==
  /\ [](\A n \in 1..Len(notionPayloads) :
          (notionPayloads[n].operation = "update"
             /\ notionPayloads[n].type \in {"release", "feature"}) => UpdateKeepsId(n))
  /\ [][ /\ notionReleases' # notionReleases =>
              IdsKept(notionReleases, notionReleases', "Productboard ID", releases[i])
         /\ notionFeatures' # notionFeatures =>
              IdsKept(notionFeatures, notionFeatures', "Feature ID", features[i]) ]_vars

\* a later run has updated a feature page that an earlier run created
C18_Witness ==
  /\ runNo >= 2
  /\ Succeeded("update", "feature") >= 1
  /\ \E n \in 1..Len(notionPayloads) :
       /\ notionPayloads[n].operation = "update" /\ notionPayloads[n].type = "feature"
       /\ notionPayloads[n].result # Null
       /\ UpdateKeepsId(n)

\* the health value the claim gives for a raw status
ExpectedHealth(raw) ==
  CASE raw \in {Undefined, Null, ""} -> "unknown"
    [] raw = "On-Track" -> "on-track"
    [] raw = "At-Risk" -> "at-risk"
    [] raw = "off-track" -> "off-track"

\* C19: health normalization.  For every fetched feature and every feature page, the
\* health value held is "unknown" when the raw status is null, empty or missing, and the
\* lowercased raw status otherwise; it is never null or empty.
C19_HealthNormalized ==
  /\ \A n \in 1..Len(features) :
       /\ features[n].health = ExpectedHealth(pbFeatures[features[n].id].health)
       /\ features[n].health \notin {Null, Undefined, ""}
  /\ \A f \in DOMAIN pbFeatures :
       \A p \in FeaturePagesOf(f) :
         /\ p.properties["Health Status"].select = ExpectedHealth(pbFeatures[f].health)
         /\ p.properties["Health Status"].select \notin {Null, Undefined, ""}

\* a run has stored "unknown" for a feature whose raw status is the empty string and
\* "on-track" for a feature whose raw status is "On-Track"
C19_Witness ==
  /\ Summarized
  /\ \E f \in DOMAIN pbFeatures, g \in DOMAIN pbFeatures :
       /\ pbFeatures[f].health = "" /\ pbFeatures[g].health = "On-Track"
       /\ \E p \in FeaturePagesOf(f) : p.properties["Health Status"].select = "unknown"
       /\ \E p \in FeaturePagesOf(g) : p.properties["Health Status"].select = "on-track"

\* the calendar date the claim gives for a source timestamp
ExpectedDate(raw) ==
  CASE raw = "2025-05-05T00:00:00Z" -> "2025-05-05"
    [] raw = "2025-06-02T12:30:00Z" -> "2025-06-02"
    [] raw \in {Null, Undefined} -> Null

\* C20: date normalization.  After a run (without a failed call) the page of every
\* source release stores, as its start date and as its end date, the part of the source
\* timestamp before the 'T', and null for a null source date.
C20_DatesStored ==
  (Summarized /\ NeverFailed) =>
    \A n \in 1..Len(pbReleases) :
      \A p \in ReleasePagesOf(pbReleases[n].id) :
        /\ p.properties["Start Date"].date = ExpectedDate(pbReleases[n].startDate)
        /\ p.properties["End Date"].date = ExpectedDate(pbReleases[n].endDate)

\* the comparison rule of the claim: null, undefined and absent are one empty marker,
\* any other value is compared as its string
Canon(v) ==
  CASE v \in {Null, Undefined, "<absent>"} -> "<empty>"
    [] v = Seven -> "7"
    [] OTHER -> v

\* the old value of a field in the arguments of the call
OldAt(k) == IF k \in DOMAIN detect.oldData THEN detect.oldData[k] ELSE "<absent>"

\* the tracked fields whose values differ under the comparison rule
Differing == {k \in DOMAIN detect.newData : Canon(OldAt(k)) # Canon(detect.newData[k])}

\* detectChanges has been called and has returned
DetectReturned == detect # NoCall /\ detect.changes # Pending

\* C21: detectChanges returns null if and only if every tracked field is equal under the
\* comparison rule; otherwise it returns exactly the fields that differ under the rule,
\* each with the old value (undefined when oldData lacks the key) and the new value.
C21_DetectChanges ==
  DetectReturned =>
    /\ (detect.changes = NullObj) <=> (Differing = {})
    /\ Differing # {} =>
         /\ DOMAIN detect.changes = Differing
         /\ \A k \in Differing :
              /\ detect.changes[k].new = detect.newData[k]
              /\ detect.changes[k].old =
                   (IF k \in DOMAIN detect.oldData THEN detect.oldData[k] ELSE Undefined)

\* the call returned null for arguments that are equal only under the rule: the state is
\* absent on one side and undefined on the other, the name is the number 7 and "7", and
\* oldData holds a key newData does not name
C21_Witness ==
  /\ DetectReturned
  /\ detect.changes = NullObj
  /\ "state" \notin DOMAIN detect.oldData /\ detect.newData["state"] = Undefined
  /\ "name" \in DOMAIN detect.oldData /\ "url" \in DOMAIN detect.oldData
  /\ detect.oldData["name"] = Seven /\ detect.newData["name"] = "7"

\* the step is the pass of the feature loop over features[i], a feature that has a page,
\* and the read of the page succeeds
ChecksFeature ==
  /\ pc = "SyncingFeatures" /\ i <= Len(features) /\ i' = i + 1
  /\ Truthy(MapGet(idMap.features, features[i].id))
  /\ HasPage(notionFeatures, MapGet(idMap.features, features[i].id))
  /\ Fault("retrieveFeature", features[i].id) \notin faultLog'

\* the properties of the page of features[i]
CheckedPage == PageOf(notionFeatures, MapGet(idMap.features, features[i].id)).properties

\* the page holds the values the run fetched for the feature's other tracked fields
OtherFieldsEqual ==
  /\ CheckedPage["Name"].title = Text(features[i].name)
  /\ CheckedPage["Status"].select = OrNull(features[i].status)
  /\ CheckedPage["Health Status"].select = OrNull(features[i].health)
  /\ CheckedPage["Product Manager"].rich_text = Text(features[i].productManager)
  /\ CheckedPage["Productboard Link"].url = OrNull(features[i].productboardLink)

\* the two sides of the relation test, "<absent>" when there is none: the first page of
\* the page's Release relation, and the page mapped to the feature's primary release
RelationOnPage ==
  IF CheckedPage["Release"].relation = <<>> THEN "<absent>"
  ELSE CheckedPage["Release"].relation[1]

MappedReleasePage ==
  IF Truthy(features[i].releaseId) /\ MapHas(releasePageMap, features[i].releaseId)
  THEN MapGet(releasePageMap, features[i].releaseId)
  ELSE "<absent>"

\* the step sends the update of the page of features[i]
UpdateIssued ==
  \E k \in (Len(trace) + 1)..Len(trace') :
    trace'[k] = Call("target", "update", features[i].id)

\* C22: in every step that checks an existing feature whose other tracked fields are
\* equal, the update is sent if and only if the first page of the page's Release relation
\* differs from the page mapped to the feature's primary release; an absent value on both
\* sides is equal and sends no update.
C22_ReleaseChangeDetection ==
  [][ (ChecksFeature /\ OtherFieldsEqual) =>
        (UpdateIssued <=> RelationOnPage # MappedReleasePage) ]_vars

\* the creates of this run that succeeded for one external id
CreatedFor(type, id) ==
  Cardinality({n \in 1..Len(notionPayloads) :
                 /\ notionPayloads[n].operation = "create"
                 /\ notionPayloads[n].type = type
                 /\ notionPayloads[n].result # Null
                 /\ notionPayloads[n].payload[IdProp(type)].rich_text = <<id>>})

\* the step added a page to the database and the identity map of the next state gives
\* that page for the record the loop is at
NewPageIndexed(db, dbNext, map, record) ==
  Len(dbNext) > Len(db) => MapGet(map, record.id) = dbNext[Len(dbNext)].id

\* C23: in every step in which a create succeeds, the identity map of the next state
\* holds the new page id under the record's external id; and in every state no run has
\* created two pages for one external id, also when the source names a record twice.
C23_CreatedIsIndexed ==
  /\ [][ /\ NewPageIndexed(notionReleases, notionReleases', idMap'.releases, releases[i])
         /\ NewPageIndexed(notionFeatures, notionFeatures', idMap'.features, features[i])
       ]_vars
  /\ [](/\ \A id \in Range(RelIds) : CreatedFor("release", id) <= 1
        /\ \A id \in Range(FeatIds) : CreatedFor("feature", id) <= 1)

\* the source named release r1 twice: the run created its page at the first record, read
\* that page at the second, and reached the summary with one page for r1
C23_Witness ==
  /\ Summarized /\ runNo = 1
  /\ Len(releases) = 3 /\ releases[1].id = releases[3].id
  /\ CreatedFor("release", releases[1].id) = 1
  /\ Cardinality(ReleasePagesOf(releases[1].id)) = 1
  /\ \E n \in 1..Len(trace), m \in 1..Len(trace) :
       /\ n < m
       /\ trace[n] = Call("target", "create", releases[1].id)
       /\ trace[m] = Call("target", "retrieve", releases[1].id)

\* the features this run fetched that the release lists and that have a target page in
\* this run
LinkableIn(r) ==
  {n \in 1..Len(features) :
     /\ \E k \in 1..Len(releaseFeatureMap) :
          releaseFeatureMap[k].key = r /\ Includes(releaseFeatureMap[k].value, features[n].id)
     /\ MapHas(featurePageMap, features[n].id)}

\* the step is the pass of the relation loop over a release that has no target page or
\* no assigned feature with a target page
SkipsRelease ==
  /\ pc = "UpdatingRelations" /\ i <= Len(releases)
  /\ (~MapHas(releasePageMap, releases[i].id) \/ LinkableIn(releases[i].id) = {})

\* C24: the pass of the relation loop over a release without a target page, or with zero
\* assigned features that have a target page, sends no call and leaves the store as it
\* was; and no step of any kind changes the "Features" relation of the page of a release
\* that has no such feature, so a release that lost all its features keeps its relation.
C24_EmptyReleaseSkipped ==
  [][ /\ SkipsRelease =>
           /\ trace' = trace
           /\ notionPayloads' = notionPayloads
           /\ notionReleases' = notionReleases /\ notionFeatures' = notionFeatures
      /\ \A n \in 1..Len(notionReleases), r \in Range(RelIds) :
           ( /\ notionReleases[n].properties["Productboard ID"].rich_text = <<r>>
             /\ LinkableIn(r) = {} ) =>
             notionReleases'[n].properties["Features"] =
               notionReleases[n].properties["Features"] ]_vars

\* a release lost its only feature in the source; the next run, without a failed call,
\* reached the summary without a relation update for it, and its page still lists the
\* feature's page
C24_Witness ==
  /\ Summarized /\ CleanRun /\ chg.kind = "assignment"
  /\ \E r \in SourceReleaseIds :
       /\ AssignedTo(r) = {}
       /\ ~Attempted({"updateRelations"}, r)
       /\ \E rp \in ReleasePagesOf(r) : FeaturesRelation(rp) # <<>>

\* the assignment list this run fetched for the release holds the feature
Lists(r, f) ==
  \E k \in 1..Len(releaseFeatureMap) :
    releaseFeatureMap[k].key = r /\ Includes(releaseFeatureMap[k].value, f)

\* the positions in the fetched release list of the releases that list the feature
ListedAt(f) == {k \in 1..Len(releases) : Lists(releases[k].id, f)}

\* the first release, in the order of the fetched release list, that lists the feature
FirstListing(f) ==
  releases[CHOOSE k \in ListedAt(f) : \A m \in ListedAt(f) : k <= m].id

\* C25: in every state, every fetched feature is listed by a fetched release, its primary
\* release is the first release of the fetched release list whose assignment list holds
\* it, the releases kept with it are exactly the releases that list it, and every payload
\* sent for it carries either no Release or the one page mapped to the primary release.
C25_PrimaryRelease ==
  \A n \in 1..Len(features) :
    /\ ListedAt(features[n].id) # {}
    /\ features[n].releaseId = FirstListing(features[n].id)
    /\ Range(features[n].releaseIds) = {releases[k].id : k \in ListedAt(features[n].id)}
    /\ \A m \in FeaturePayloadsAt :
         ( /\ notionPayloads[m].payload["Feature ID"].rich_text = <<features[n].id>>
           /\ "Release" \in DOMAIN notionPayloads[m].payload ) =>
           notionPayloads[m].payload["Release"].relation =
             <<MapGet(releasePageMap, FirstListing(features[n].id))>>

\* a feature assigned to two releases was created with the page of the first of them as
\* its Release, both releases kept with it
C25_Witness ==
  /\ Summarized
  /\ \E n \in 1..Len(features) :
       /\ Len(features[n].releaseIds) = 2
       /\ features[n].releaseId = releases[1].id
       /\ \E p \in FeaturePagesOf(features[n].id), rp \in ReleasePagesOf(releases[1].id) :
            p.properties["Release"].relation = <<rp.id>>

\* the external ids stored on the pages of a database
StoredIds(db, idProp) ==
  {db[n].properties[idProp].rich_text[1] :
     n \in {m \in 1..Len(db) : db[m].properties[idProp].rich_text # <<>>}}

\* the map has an entry for exactly these external ids, each giving a page of the
\* database that stores the id
IndexesExactly(map, db, idProp) ==
  /\ {map[n].key : n \in 1..Len(map)} = StoredIds(db, idProp)
  /\ \A n \in 1..Len(map) :
       \E m \in 1..Len(db) :
         db[m].id = map[n].value /\ db[m].properties[idProp].rich_text = <<map[n].key>>

\* the positions of main() after buildIdMapping has returned
AfterIndex == {"FetchingReleases", "FetchingAssignments", "FetchingDetails",
               "SyncingReleases", "SyncingFeatures", "UpdatingRelations", "Done"}

\* C26: in every state after the index build, the identity map of each collection has
\* an entry for exactly the external ids stored on the pages of that collection, over
\* all pages of results of the query, each entry giving a page that stores the id; pages
\* without an external id give no entry, and a run ends in Failed only when a query or
\* the release list failed or a configuration value is missing.
C26_IndexComplete ==
  /\ pc \in AfterIndex =>
       /\ IndexesExactly(idMap.releases, notionReleases, "Productboard ID")
       /\ IndexesExactly(idMap.features, notionFeatures, "Feature ID")
  /\ pc = "Failed" => (ConfigMissing \/ \E fl \in faultLog : fl.call \in FatalCalls)

\* a run over a store of four release pages, one of them without an external id, has
\* built its index: three entries for releases, read from more than one page of results
C26_Witness ==
  /\ pc = "FetchingReleases"
  /\ Len(notionReleases) = 4 /\ Len(idMap.releases) = 3
  /\ \E n \in 1..Len(notionReleases) :
       notionReleases[n].properties["Productboard ID"].rich_text = <<>>
  /\ Cardinality({n \in 1..Len(trace) :
                    trace[n] = Call("target", "query", "releases")}) >= 2
  /\ Len(notionFeatures) = 4 /\ Len(idMap.features) = 3

\* the store an uninterrupted first run leaves when no call fails
UninterruptedStore ==
  [notionReleases |->
     <<ReleasePage("p1", "r1", "Alpha", "upcoming", "g1", <<"p3">>),
       ReleasePage("p2", "r2", "Beta", Null, Null, <<"p4">>)>>,
   notionFeatures |->
     <<FeaturePage("p3", "f1", "Alpha", "planned", "on-track", "pm@x.io",
                   "https://pb/f", <<"p1">>),
       FeaturePage("p4", "f2", "Beta", Null, "unknown", Null, Null, <<"p2">>)>>]

\* every page of the database is a page the completed database holds, at the same place,
\* with the same page id and the same external id
PagesOfCompleted(db, completed, idProp) ==
  /\ Len(db) <= Len(completed)
  /\ \A n \in 1..Len(db) :
       /\ db[n].id = completed[n].id
       /\ db[n].properties[idProp] = completed[n].properties[idProp]

\* the step sends a create for the record
Creates(id) ==
  \E k \in (Len(trace) + 1)..Len(trace') : trace'[k] = Call("target", "create", id)

\* the step reads the page of the record
Retrieves(id) ==
  \E k \in (Len(trace) + 1)..Len(trace') : trace'[k] = Call("target", "retrieve", id)

\* C27: interrupted runs are safe.  In every state, however many runs were terminated and
\* wherever: while no call has failed every page of the store is a page the uninterrupted
\* run holds; no external id is carried by two pages of a collection; and a run that
\* reaches the summary without any failed call leaves the store of the uninterrupted run.
\* In every step, a create is sent only for a record that has no page, and the pass of
\* a sync loop over a record that has a page reads that page instead.
C27_InterruptedRunsSafe ==
  /\ [](/\ NeverFailed =>
            /\ PagesOfCompleted(notionReleases, UninterruptedStore.notionReleases,
                                "Productboard ID")
            /\ PagesOfCompleted(notionFeatures, UninterruptedStore.notionFeatures,
                                "Feature ID")
        /\ \A id \in Range(RelIds) : Cardinality(ReleasePagesOf(id)) <= 1
        /\ \A id \in Range(FeatIds) : Cardinality(FeaturePagesOf(id)) <= 1
        /\ (Summarized /\ NeverFailed) =>
             /\ notionReleases = UninterruptedStore.notionReleases
             /\ notionFeatures = UninterruptedStore.notionFeatures)
  /\ [][ /\ \A id \in Range(RelIds) :
              /\ Creates(id) => ReleasePagesOf(id) = {}
              /\ (pc = "SyncingReleases" /\ i <= Len(releases) /\ releases[i].id = id
                    /\ i' = i + 1 /\ ReleasePagesOf(id) # {}) => Retrieves(id)
         /\ \A id \in Range(FeatIds) :
              /\ Creates(id) => FeaturePagesOf(id) = {}
              /\ (pc = "SyncingFeatures" /\ i <= Len(features) /\ features[i].id = id
                    /\ i' = i + 1 /\ FeaturePagesOf(id) # {}) => Retrieves(id) ]_vars

\* a run was terminated after it had created both release pages and the page of f1; the
\* next run, without a failed call, found those three pages, created the page of f2 and
\* reached the summary with the store of the uninterrupted run
C27_Witness ==
  /\ Summarized /\ NeverFailed /\ runNo = 2
  /\ stats.releases = [created |-> 0, updated |-> 0, unchanged |-> 2]
  /\ stats.features.created = 1 /\ stats.features.unchanged = 1
  /\ notionReleases = UninterruptedStore.notionReleases
  /\ notionFeatures = UninterruptedStore.notionFeatures

\* the payload at this position of the payload log was sent for the feature
PayloadFor(n, id) ==
  /\ notionPayloads[n].type = "feature"
  /\ notionPayloads[n].payload["Feature ID"].rich_text = <<id>>

\* the step is the pass of the feature loop over features[i], a feature without a product
\* manager, and its create or update succeeds
WritesManagerless ==
  /\ pc = "SyncingFeatures" /\ i <= Len(features) /\ i' = i + 1
  /\ ~Truthy(features[i].productManager)
  /\ \E n \in (Len(notionPayloads) + 1)..Len(notionPayloads') :
       notionPayloads'[n].result # Null

\* C28: clear policy for the product manager.  In every state, every create and update
\* payload sent for a feature that has no product manager sets "Product Manager" to the
\* empty value.  In every step: when such a create or update succeeds, the page holds no
\* product manager afterwards; and when the page of a feature is read and holds no
\* product manager, the value read is null and, the feature having none, the product
\* manager is not among the changes detected.
C28_ManagerCleared ==
  /\ [](\A n \in 1..Len(notionPayloads), k \in 1..Len(features) :
          (PayloadFor(n, features[k].id) /\ ~Truthy(features[k].productManager)) =>
            /\ "Product Manager" \in DOMAIN notionPayloads[n].payload
            /\ notionPayloads[n].payload["Product Manager"] = [rich_text |-> <<>>])
  /\ [][ /\ WritesManagerless =>
              \A p \in Range(notionFeatures') :
                p.properties["Feature ID"].rich_text = <<features[i].id>> =>
                  p.properties["Product Manager"].rich_text = <<>>
         /\ (ChecksFeature /\ CheckedPage["Product Manager"].rich_text = <<>>) =>
              /\ detect'.oldData.productManager = Null
              /\ ~Truthy(features[i].productManager) =>
                   (detect'.changes = NullObj
                      \/ "productManager" \notin DOMAIN detect'.changes) ]_vars

\* the source dropped the product manager of f1 after a run had stored it; the next run
\* updated the page of f1, which now holds no product manager
C28_Witness ==
  /\ Summarized /\ runNo >= 2 /\ chg.kind = "feature" /\ chg.id = "f1"
  /\ pbFeatures["f1"].pm = Null
  /\ Succeeded("update", "feature") = 1
  /\ \E n \in 1..Len(notionPayloads) :
       /\ PayloadFor(n, "f1") /\ notionPayloads[n].operation = "update"
       /\ notionPayloads[n].payload["Product Manager"] = [rich_text |-> <<>>]
  /\ \E p \in FeaturePagesOf("f1") : p.properties["Product Manager"].rich_text = <<>>

\* the optional properties of a release whose source value is absent
AbsentOfRelease(release) ==
  {p \in {"State", "Release Group"} :
     ~Truthy(IF p = "State" THEN release.state ELSE release.releaseGroup)}

\* the optional properties of a feature whose source value, or mapped release page, is
\* absent
AbsentOfFeature(feature) ==
  {p \in {"Status", "Productboard Link", "Release"} :
     CASE p = "Status" -> ~Truthy(feature.status)
       [] p = "Productboard Link" -> ~Truthy(feature.productboardLink)
       [] p = "Release" -> \/ ~Truthy(feature.releaseId)
                           \/ ~MapHas(releasePageMap, feature.releaseId)}

\* the update payloads the step adds to the payload log
NewUpdates ==
  {n \in (Len(notionPayloads) + 1)..Len(notionPayloads') :
     notionPayloads'[n].operation = "update"}

\* the update of the step names none of the properties, and the page it was sent to
\* holds the same value for each of them after the step
OmittedAndKept(absent, db, dbNext) ==
  \A n \in NewUpdates :
    /\ absent \cap DOMAIN notionPayloads'[n].payload = {}
    /\ \A m \in 1..Len(db) :
         db[m].id = notionPayloads'[n].pageId =>
           \A p \in absent : dbNext[m].properties[p] = db[m].properties[p]

\* C29: omit policy.  In every step that updates the page of a release or of a feature,
\* each of State, Release Group, Status, Productboard Link and Release whose source
\* value is absent is left out of the update payload, and the page holds the same value
\* for it after the update as before.
C29_AbsentOmitted ==
  [][ /\ (pc = "SyncingReleases" /\ i <= Len(releases)) =>
           OmittedAndKept(AbsentOfRelease(releases[i]), notionReleases, notionReleases')
      /\ (pc = "SyncingFeatures" /\ i <= Len(features)) =>
           OmittedAndKept(AbsentOfFeature(features[i]), notionFeatures, notionFeatures')
    ]_vars

\* the source dropped the state of r1 after a run had stored it; the next run updated
\* the page of r1 with a payload that does not name State, and the page still holds the
\* state the first run stored
C29_Witness ==
  /\ Summarized /\ runNo >= 2 /\ chg.kind = "release" /\ chg.id = "r1"
  /\ \E k \in 1..Len(releases) : releases[k].id = "r1" /\ releases[k].state = Null
  /\ Succeeded("update", "release") = 1
  /\ \E n \in 1..Len(notionPayloads) :
       /\ notionPayloads[n].operation = "update" /\ notionPayloads[n].type = "release"
       /\ "State" \notin DOMAIN notionPayloads[n].payload
  /\ \E p \in ReleasePagesOf("r1") : p.properties["State"].select = "upcoming"

\* the release ids and the feature ids this run obtained from the source
ObtainedReleaseIds == {releases[k].id : k \in 1..Len(releases)}

ObtainedFeatureIds == {features[k].id : k \in 1..Len(features)}

\* the page stores no external id, or one that is not among these
NotObtained(page, idProp, obtained) ==
  \/ page.properties[idProp].rich_text = <<>>
  \/ page.properties[idProp].rich_text[1] \notin obtained

\* in this step no page is removed, every page whose external id was not obtained is
\* left as it was, and every page added stores an external id that was obtained
OthersUntouched(db, dbNext, idProp, obtained) ==
  /\ Len(dbNext) >= Len(db)
  /\ \A n \in 1..Len(db) : NotObtained(db[n], idProp, obtained) => dbNext[n] = db[n]
  /\ \A n \in (Len(db) + 1)..Len(dbNext) : ~NotObtained(dbNext[n], idProp, obtained)

\* the page the payload was sent to stores an external id that was obtained
SentToObtained(entry) ==
  IF entry.type = "feature"
  THEN \A m \in 1..Len(notionFeatures) :
         notionFeatures[m].id = entry.pageId =>
           ~NotObtained(notionFeatures[m], "Feature ID", ObtainedFeatureIds)
  ELSE \A m \in 1..Len(notionReleases) :
         notionReleases[m].id = entry.pageId =>
           ~NotObtained(notionReleases[m], "Productboard ID", ObtainedReleaseIds)

\* C30: a run touches only the pages of the records it obtained from the source.  In
\* every state, every retrieve, create, update and relation update was sent for a release
\* or a feature the run obtained, every payload was sent to a page that stores such an
\* id, and no call was sent for a feature whose detail fetch failed.  In every step no
\* page is removed and every page without an external id, or with the id of a record the
\* run did not obtain, is left as it was.
C30_OnlyObtainedTouched ==
  /\ [](/\ \A n \in 1..Len(trace) :
             (trace[n].ev = "target" /\ trace[n].call # "query") =>
               trace[n].id \in ObtainedReleaseIds \cup ObtainedFeatureIds
        /\ \A n \in 1..Len(notionPayloads) :
             notionPayloads[n].pageId # Null => SentToObtained(notionPayloads[n])
        /\ \A f \in FailedDetails :
             ~Attempted({"retrieve", "create", "update", "updateRelations"}, f))
  /\ [][ /\ OthersUntouched(notionReleases, notionReleases', "Productboard ID",
                             ObtainedReleaseIds)
         /\ OthersUntouched(notionFeatures, notionFeatures', "Feature ID",
                             ObtainedFeatureIds) ]_vars

\* a later run over the store with foreign pages reached the summary: the detail fetch of
\* a feature that has a page failed and that page got no call, and the pages of r0 and
\* f0 and the pages without an external id are as they were before the first run
C30_Witness ==
  /\ Summarized /\ runNo >= 2
  /\ Len(notionReleases) = 4 /\ Len(notionFeatures) = 4
  /\ SubSeq(notionReleases, 1, 2) = StoreWithForeignPages.notionReleases
  /\ SubSeq(notionFeatures, 1, 2) = StoreWithForeignPages.notionFeatures
  /\ \E f \in FailedDetails :
       /\ FeaturePagesOf(f) # {}
       /\ ~Attempted({"retrieve", "create", "update", "updateRelations"}, f)
  /\ notionPayloads # <<>>

====
